---- MODULE Spec2Model ----
(***************************************************************************)
(* Message preprocessing and delivery correlation of SC_Sub_Poster.        *)
(*                                                                         *)
(* A Rust string is modelled as a sequence of one-character strings, so    *)
(* that searching, slicing, trimming and concatenation are computed the    *)
(* way the code computes them.  Offsets are 0-based as in the source; the  *)
(* slice s[a..b] of the source is Slice(s, a, b).  An Option is a sequence *)
(* of length 0 (None) or 1 (Some(x)).                                      *)
(***************************************************************************)
EXTENDS Integers, Sequences, FiniteSets, TLC

VARIABLES
    \* bbcode::Parser::parse, one call
    p_pc,           \* "call" | "loop" | "flush" | "done"
    message,        \* the argument of parse
    parsed,         \* Vec<BBCodeContent> being built
    current_text,   \* pending literal text
    i,              \* scan position
    p_result,       \* the returned Vec (<<>> until the call returns)
    \* MessagePreprocessor::extract_mentions, one call
    m_pc,           \* "call" | "loop" | "done"
    m_text,         \* the argument of extract_mentions
    m_tokens,       \* what split_whitespace has still to yield
    mentions,       \* the ChatMentions being filled
    m_result,       \* the returned Option<ChatMentions>
    \* MessagePreprocessor::process_response, one call
    r_pc,           \* "call" | "done"
    r_args,         \* the arguments of the call
    r_out,          \* the returned PreprocessedMessage (None until the call returns)
    \* ChatRoomMessaging::send_group_message, one call, and its connection
    s_pc,           \* "call" | "await_response" | "wait_echo" | "done"
    params,         \* SendGroupMessageParams
    request,        \* the request handed to service_method (None before)
    response,       \* the synchronous response (None before it arrives)
    final_preprocessed, \* the record being returned (None before it is built)
    s_result,       \* None | Ok(record) | Err(error)
    warned,         \* tracing::warn! of lines 682-686 was emitted
    cursor,         \* the echo subscription's position in the stream (None: not subscribed)
    taken,          \* the notification the echo wait matched (None: none)
    stream,         \* the notifications the connection has delivered, in order
    timed_out,      \* the 5 s since the synchronous response was processed are over
    \* MessagePreprocessor::prepare_message_for_sending, one call
    u_pc,           \* "call" | "done"
    u_message,      \* the argument of the call
    u_out,          \* the returned String (None until the call returns)
    \* one PreprocessedMessage from its construction on
    rec_raw,        \* the raw text the caller supplied
    rec,            \* the record (None before it is constructed)
    rec_op,         \* the operation that produced rec ("none" before)
    rec_steps,      \* how many operations have produced a record
    \* NotificationStream::for_each over the group stream, one dispatch loop
    d_pc,           \* "next" | "handler" | "sleep" | "done"
    inner,          \* the items the stream has still to yield
    d_taken,        \* how many items the loop has taken from the stream
    d_item,         \* the item the handler is running on (None: not running)
    d_log,          \* the events of the loop, in order
    d_result,       \* None | Ok(()) | Err(NotificationDispatchError)
    \* ChatRoomMessaging::delete_group_messages_from_preprocessed, one call
    del_pc,         \* "call" | "loop" | "check" | "delete" | "await_response" | "done"
    del_args,       \* chat_group_id, chat_id and messages of the call
    del_next,       \* how many input records the for loop has visited
    message_identifiers, \* the pairs extracted so far
    skipped_count,  \* the records skipped so far
    del_requests,   \* the delete requests handed to service_method, in order
    del_result,     \* None | Ok(response) | Err(error)
    \* KetherSteamClient::new / new_anonymous, one call
    l_pc,           \* "call" | "login" | "validate" | "done"
    l_call,         \* "new" | "new_anonymous"
    l_world,        \* what discovery and login answer to this call
    server_list,    \* the discovered ServerList (None before)
    connection,     \* the Connection the login returned (None before)
    l_result,       \* None | Ok(client) | Err(error)
    \* two concurrent send_group_message calls on one connection
    calls,          \* per call: pc, params, response, record, result, cursor, taken
    room_stream,    \* the notifications the connection has delivered, in order
    \* a helper building a text and the function that reads it back
    h_pc,           \* "call" | "built" | "done"
    h_args,         \* the arguments of the helper
    h_text,         \* the String the helper returned
    h_out           \* what extract_mentions / parse_bbcode makes of it

p_vars == <<p_pc, message, parsed, current_text, i, p_result>>
m_vars == <<m_pc, m_text, m_tokens, mentions, m_result>>
r_vars == <<r_pc, r_args, r_out>>
s_vars == <<s_pc, params, request, response, final_preprocessed, s_result, warned,
            cursor, taken, stream, timed_out>>
u_vars == <<u_pc, u_message, u_out>>
rec_vars == <<rec_raw, rec, rec_op, rec_steps>>
d_vars == <<d_pc, inner, d_taken, d_item, d_log, d_result>>
del_vars == <<del_pc, del_args, del_next, message_identifiers, skipped_count,
              del_requests, del_result>>
l_vars == <<l_pc, l_call, l_world, server_list, connection, l_result>>
t_vars == <<calls, room_stream>>
h_vars == <<h_pc, h_args, h_text, h_out>>

----------------------------------------------------------------------------
(* Option and string primitives *)

None == <<>>
Some(x) == <<x>>

\* &s[a..b]
Slice(s, a, b) == SubSeq(s, a + 1, b)

\* str::find(char): offset of the first occurrence
Find(s, ch) ==
    IF \E k \in 1..Len(s) : s[k] = ch
    THEN Some((CHOOSE k \in 1..Len(s) : s[k] = ch /\ \A j \in 1..(k - 1) : s[j] # ch) - 1)
    ELSE None

\* char::is_whitespace, on the characters the model draws
IsWhitespace(c) == c \in {" ", "\t", "\n"}

RECURSIVE TrimStart(_)
TrimStart(s) ==
    IF s # <<>> /\ IsWhitespace(Head(s)) THEN TrimStart(Tail(s)) ELSE s

RECURSIVE TrimEnd(_)
TrimEnd(s) ==
    IF s # <<>> /\ IsWhitespace(s[Len(s)]) THEN TrimEnd(SubSeq(s, 1, Len(s) - 1)) ELSE s

\* str::trim
Trim(s) == TrimEnd(TrimStart(s))

\* str::splitn(2, ch): one part, or the parts before and after the first ch
Splitn2(s, ch) ==
    LET at == Find(s, ch) IN
    IF at = None THEN <<s>>
    ELSE <<Slice(s, 0, at[1]), Slice(s, at[1] + 1, Len(s))>>

\* slice::contains
Contains(list, x) == \E k \in 1..Len(list) : list[k] = x

----------------------------------------------------------------------------
(* preprocessing.rs: constants and data *)

ALLOWED_BBCODE_TAGS ==
    << <<"e","m","o","t","i","c","o","n">>, <<"c","o","d","e">>, <<"p","r","e">>,
       <<"i","m","g">>, <<"u","r","l">>, <<"s","p","o","i","l","e","r">>,
       <<"q","u","o","t","e">>, <<"r","a","n","d","o","m">>, <<"f","l","i","p">>,
       <<"t","r","a","d","e","o","f","f","e","r","l","i","n","k">>,
       <<"t","r","a","d","e","o","f","f","e","r">>,
       <<"s","t","i","c","k","e","r">>,
       <<"g","a","m","e","i","n","v","i","t","e">>, <<"o","g">>,
       <<"r","o","o","m","e","f","f","e","c","t">> >>

\* BBCodeContent::String
ContentString(text) == [kind |-> "String", text |-> text]

\* BBCodeNode wrapped in BBCodeContent::Node
ContentNode(tag, attrs, content) ==
    [kind |-> "Node", tag |-> tag, attrs |-> attrs, content |-> content]

\* HashMap::new()
EmptyMap == [k \in {} |-> <<>>]

----------------------------------------------------------------------------
(* preprocessing.rs: bbcode::Parser *)

\* find_next_tag reporting the length of the tag's content as the length of
\* the span
find_next_tag_content_length(text) ==
    LET open == Find(text, "[") IN
    IF open # None
    THEN LET tag_start == open[1]
             close == Find(Slice(text, tag_start, Len(text)), "]")
         IN  IF close # None
             THEN LET tag_end == close[1] IN
                  [kind |-> "Found",
                   text_before |-> Slice(text, 0, tag_start),
                   tag_content |-> Slice(text, tag_start + 1, tag_start + tag_end),
                   tag_length |-> tag_end - 1]
             ELSE [kind |-> "EndOfText", remaining |-> text]
    ELSE [kind |-> "EndOfText", remaining |-> text]

find_next_tag(text) ==
    LET open == Find(text, "[") IN
    IF open # None
    THEN LET tag_start == open[1]
             close == Find(Slice(text, tag_start, Len(text)), "]")
         IN  IF close # None
             THEN LET tag_end == close[1] IN
                  [kind |-> "Found",
                   text_before |-> Slice(text, 0, tag_start),
                   tag_content |-> Slice(text, tag_start + 1, tag_start + tag_end),
                   tag_length |-> tag_start + tag_end + 1]
             ELSE [kind |-> "EndOfText", remaining |-> text]
    ELSE [kind |-> "EndOfText", remaining |-> text]

\* extract_tag_attributes keeping the right part as it is written
extract_tag_attributes_untrimmed(parts) ==
    IF Len(parts) >= 2 /\ parts[2] # <<>>
    THEN [k \in {"value"} |-> parts[2]] ELSE EmptyMap

extract_tag_attributes(parts) ==
    LET value == IF Len(parts) >= 2 /\ Trim(parts[2]) # <<>>
                 THEN Some(Trim(parts[2])) ELSE None
    IN  IF value # None THEN [k \in {"value"} |-> value[1]] ELSE EmptyMap

\* ASCII lower-casing of the letters the model draws
LowerChar(c) == IF c = "O" THEN "o" ELSE IF c = "G" THEN "g" ELSE c
Lower(s) == [k \in 1..Len(s) |-> LowerChar(s[k])]

\* parse_tag matching the allow-list without regard to letter case
parse_tag_ignore_case(allowed_tags, tag_content) ==
    LET parts == Splitn2(tag_content, "=")
        tag_name == Lower(Trim(parts[1]))
    IN  IF ~Contains(allowed_tags, tag_name)
        THEN None
        ELSE Some(ContentNode(tag_name, extract_tag_attributes(parts), None))

parse_tag(allowed_tags, tag_content) ==
    LET parts == Splitn2(tag_content, "=")
        tag_name == Trim(parts[1])
    IN  IF ~Contains(allowed_tags, tag_name)
        THEN None
        ELSE Some(ContentNode(tag_name, extract_tag_attributes(parts), None))

\* the loop body pushing every rejected span as an element of its own
ParseIterNoCoalesce(allowed_tags, msg, st) ==
    LET pos == find_next_tag(Slice(msg, st.i, Len(msg))) IN
    IF pos.kind = "Found"
    THEN LET text1 == st.current_text \o pos.text_before
             node == parse_tag(allowed_tags, pos.tag_content)
             flushed == IF text1 # <<>>
                        THEN Append(st.parsed, ContentString(text1))
                        ELSE st.parsed
         IN  IF node # None
             THEN [parsed |-> flushed \o node,
                   current_text |-> <<>>,
                   i |-> st.i + pos.tag_length,
                   brk |-> FALSE]
             ELSE [parsed |-> Append(flushed,
                       ContentString(Slice(msg, st.i, st.i + pos.tag_length))),
                   current_text |-> <<>>,
                   i |-> st.i + pos.tag_length,
                   brk |-> FALSE]
    ELSE [parsed |-> st.parsed,
          current_text |-> st.current_text \o pos.remaining,
          i |-> st.i,
          brk |-> TRUE]

\* One iteration of the while loop of parse, on the loop's locals.
\* brk is TRUE once the loop has been left by break.
ParseIter(allowed_tags, msg, st) ==
    LET pos == find_next_tag(Slice(msg, st.i, Len(msg))) IN
    IF pos.kind = "Found"
    THEN LET text1 == st.current_text \o pos.text_before
             node == parse_tag(allowed_tags, pos.tag_content)
         IN  IF node # None
             THEN [parsed |-> (IF text1 # <<>>
                               THEN Append(st.parsed, ContentString(text1))
                               ELSE st.parsed) \o node,
                   current_text |-> <<>>,
                   i |-> st.i + pos.tag_length,
                   brk |-> FALSE]
             ELSE [parsed |-> st.parsed,
                   current_text |-> text1 \o Slice(msg, st.i, st.i + pos.tag_length),
                   i |-> st.i + pos.tag_length,
                   brk |-> FALSE]
    ELSE [parsed |-> st.parsed,
          current_text |-> st.current_text \o pos.remaining,
          i |-> st.i,
          brk |-> TRUE]

\* the statements after the loop
ParseFlush(st) ==
    IF st.current_text # <<>>
    THEN Append(st.parsed, ContentString(st.current_text))
    ELSE st.parsed

ParseLocals == [parsed |-> <<>>, current_text |-> <<>>, i |-> 0, brk |-> FALSE]

\* the entry of parse without the early return
ParseEntryNoEmptyCheck(msg) == [ret |-> None, st |-> ParseLocals]

\* the entry of parse: the early return for an empty message, else the locals
ParseEntry(msg) ==
    IF msg = <<>>
    THEN [ret |-> Some(<<ContentString(msg)>>), st |-> ParseLocals]
    ELSE [ret |-> None, st |-> ParseLocals]

RECURSIVE ParseLoop(_, _, _)
ParseLoop(allowed_tags, msg, st) ==
    IF st.i < Len(msg) /\ ~st.brk
    THEN ParseLoop(allowed_tags, msg, ParseIter(allowed_tags, msg, st))
    ELSE st

\* Parser::parse as a function of its input
Parser_parse(allowed_tags, msg) ==
    LET entry == ParseEntry(msg) IN
    IF entry.ret # None
    THEN entry.ret[1]
    ELSE ParseFlush(ParseLoop(allowed_tags, msg, entry.st))

parse_bbcode(msg) == Parser_parse(ALLOWED_BBCODE_TAGS, msg)

----------------------------------------------------------------------------
(* preprocessing.rs: mention extraction *)

MENTION_ALL == <<"@","a","l","l">>
MENTION_HERE == <<"@","h","e","r","e">>
MENTION_PUNCTUATION == {"!", "?", ",", ".", ";"}

\* str::split_whitespace: the maximal runs of non-whitespace characters
RECURSIVE SplitFrom(_, _)
SplitFrom(s, token) ==
    IF s = <<>>
    THEN (IF token # <<>> THEN <<token>> ELSE <<>>)
    ELSE IF IsWhitespace(Head(s))
         THEN (IF token # <<>> THEN <<token>> ELSE <<>>) \o SplitFrom(Tail(s), <<>>)
         ELSE SplitFrom(Tail(s), Append(token, Head(s)))

split_whitespace(s) == SplitFrom(s, <<>>)

\* str::trim_matches(|c| MENTION_PUNCTUATION.contains(c))
RECURSIVE TrimPunctStart(_)
TrimPunctStart(s) ==
    IF s # <<>> /\ Head(s) \in MENTION_PUNCTUATION THEN TrimPunctStart(Tail(s)) ELSE s

RECURSIVE TrimPunctEnd(_)
TrimPunctEnd(s) ==
    IF s # <<>> /\ s[Len(s)] \in MENTION_PUNCTUATION
    THEN TrimPunctEnd(SubSeq(s, 1, Len(s) - 1)) ELSE s

trim_matches_punctuation(s) == TrimPunctEnd(TrimPunctStart(s))

StartsWith(s, prefix) == Len(prefix) <= Len(s) /\ SubSeq(s, 1, Len(prefix)) = prefix

STEAM_ID_PREFIX == <<"[","U",":","1",":">>

is_steam_id_format(token) ==
    StartsWith(token, STEAM_ID_PREFIX) /\ token # <<>> /\ token[Len(token)] = "]"

DigitValue ==
    [c \in {"0", "1", "2", "3", "4", "5", "6", "7", "8", "9"} |->
        CASE c = "0" -> 0 [] c = "1" -> 1 [] c = "2" -> 2 [] c = "3" -> 3 [] c = "4" -> 4
          [] c = "5" -> 5 [] c = "6" -> 6 [] c = "7" -> 7 [] c = "8" -> 8 [] c = "9" -> 9]

\* the decimal digits of u32::MAX, 4294967295
U32MaxDigits == <<"4", "2", "9", "4", "9", "6", "7", "2", "9", "5">>

\* a decimal numeral without its leading zeros ("0" for zero): the number it
\* denotes, kept as digits because an account id takes the full 32 bits
RECURSIVE StripZeros(_)
StripZeros(digits) ==
    IF Len(digits) > 1 /\ Head(digits) = "0" THEN StripZeros(Tail(digits)) ELSE digits

\* numerals of equal length compared digit by digit
RECURSIVE NumeralLeq(_, _)
NumeralLeq(a, b) ==
    IF a = <<>> THEN TRUE
    ELSE IF DigitValue[Head(a)] # DigitValue[Head(b)]
         THEN DigitValue[Head(a)] < DigitValue[Head(b)]
         ELSE NumeralLeq(Tail(a), Tail(b))

FitsU32(digits) ==
    LET n == StripZeros(digits) IN
    Len(n) < Len(U32MaxDigits) \/ (Len(n) = Len(U32MaxDigits) /\ NumeralLeq(n, U32MaxDigits))

\* SteamID::try_from(&str) on a token that has the [U:1:...] shape: the Steam3
\* form [U:1:<account>] with 1 to 10 decimal digits that fit 32 bits
SteamID_try_from(token) ==
    LET account == SubSeq(token, Len(STEAM_ID_PREFIX) + 1, Len(token) - 1) IN
    IF /\ is_steam_id_format(token)
       /\ Len(account) \in 1..10
       /\ \A k \in 1..Len(account) : account[k] \in DOMAIN DigitValue
       /\ FitsU32(account)
    THEN Some(StripZeros(account))
    ELSE None

NoMentions == [mention_all |-> FALSE, mention_here |-> FALSE, mention_steamids |-> <<>>]

has_any_mentions(m) == m.mention_all \/ m.mention_here \/ m.mention_steamids # <<>>

\* process_mention_token matching the broadcast literals anywhere in the token
process_mention_token_substring(token, m) ==
    LET cleaned_token == trim_matches_punctuation(token)
        within(lit) == \E a \in 0..(Len(cleaned_token) - Len(lit)) :
                          SubSeq(cleaned_token, a + 1, a + Len(lit)) = lit
    IN  IF within(MENTION_ALL) THEN [m EXCEPT !.mention_all = TRUE]
        ELSE IF within(MENTION_HERE) THEN [m EXCEPT !.mention_here = TRUE]
        ELSE m

\* process_mention_token keeping one entry per Steam ID
process_mention_token_unique(token, m) ==
    LET cleaned_token == trim_matches_punctuation(token) IN
    IF cleaned_token = MENTION_ALL THEN [m EXCEPT !.mention_all = TRUE]
    ELSE IF cleaned_token = MENTION_HERE THEN [m EXCEPT !.mention_here = TRUE]
    ELSE IF is_steam_id_format(cleaned_token)
         THEN LET steam_id == SteamID_try_from(cleaned_token) IN
              IF steam_id # None /\ ~Contains(m.mention_steamids, steam_id[1])
              THEN [m EXCEPT !.mention_steamids = Append(@, steam_id[1])]
              ELSE m
         ELSE m

process_mention_token(token, m) ==
    LET cleaned_token == trim_matches_punctuation(token) IN
    IF cleaned_token = MENTION_ALL THEN [m EXCEPT !.mention_all = TRUE]
    ELSE IF cleaned_token = MENTION_HERE THEN [m EXCEPT !.mention_here = TRUE]
    ELSE IF is_steam_id_format(cleaned_token)
         THEN LET steam_id == SteamID_try_from(cleaned_token) IN
              IF steam_id # None
              THEN [m EXCEPT !.mention_steamids = Append(@, steam_id[1])]
              ELSE m
         ELSE m

\* extract_mentions returning the ChatMentions whatever it holds
MentionsReturnAlwaysSome(m) == Some(m)

\* the end of extract_mentions
MentionsReturn(m) == IF has_any_mentions(m) THEN Some(m) ELSE None

RECURSIVE MentionsFold(_, _)
MentionsFold(tokens, m) ==
    IF tokens = <<>> THEN m
    ELSE MentionsFold(Tail(tokens), process_mention_token(Head(tokens), m))

\* extract_mentions as a function of its input
extract_mentions(text) == MentionsReturn(MentionsFold(split_whitespace(text), NoMentions))

----------------------------------------------------------------------------
(* preprocessing.rs: the pipeline *)

\* str::replace(pat, to) for a two-character pattern: left to right, without overlap
RECURSIVE Replace2(_, _, _)
Replace2(s, pat, to) ==
    IF Len(s) < 2 THEN s
    ELSE IF SubSeq(s, 1, 2) = pat
         THEN to \o Replace2(SubSeq(s, 3, Len(s)), pat, to)
         ELSE <<Head(s)>> \o Replace2(Tail(s), pat, to)

\* prepare_message_for_sending dropping every backslash
prepare_message_drops_backslashes(msg) == SelectSeq(msg, LAMBDA c : c # "\\")

prepare_message_for_sending(msg) ==
    Replace2(Replace2(msg, <<"\\", "[">>, <<"[">>), <<"\\", "]">>, <<"]">>)

PreprocessedMessage(original, modified, bbcode, found, timestamp, ord) ==
    [original_message |-> original,
     modified_message |-> modified,
     message_bbcode_parsed |-> bbcode,
     mentions |-> found,
     server_timestamp |-> timestamp,
     ordinal |-> ord]

preprocess_message(msg) ==
    PreprocessedMessage(msg, msg, parse_bbcode(msg), extract_mentions(msg), None, None)

\* process_response taking the ordinal 0 for "not reported"
process_response_zero_is_none(original_message, modified_message, server_timestamp, ordinal) ==
    PreprocessedMessage(original_message, modified_message,
                        parse_bbcode(modified_message), extract_mentions(modified_message),
                        Some(server_timestamp),
                        IF ordinal = 0 THEN None ELSE Some(ordinal))

process_response(original_message, modified_message, server_timestamp, ordinal) ==
    PreprocessedMessage(original_message, modified_message,
                        parse_bbcode(modified_message), extract_mentions(modified_message),
                        Some(server_timestamp), Some(ordinal))

----------------------------------------------------------------------------
(* chatroom.rs: sending a group message *)

\* Result
Ok(v) == [ok |-> TRUE, value |-> v]
Err(e) == [ok |-> FALSE, error |-> e]

\* the accessors of an optional protobuf field: has_x() and x() with its default
HasField(field) == field # None
FieldOr(field, default) == IF field # None THEN field[1] ELSE default

build_send_message_request(p) ==
    [chat_group_id |-> p.chat_group_id,
     chat_id |-> p.chat_id,
     message |-> prepare_message_for_sending(p.message),
     echo_to_sender |-> p.echo_to_sender]

process_send_message_response(p, resp) ==
    LET ordinal == IF HasField(resp.ordinal) THEN FieldOr(resp.ordinal, 0) ELSE 0 IN
    process_response(p.message, FieldOr(resp.modified_message, <<>>),
                     FieldOr(resp.server_timestamp, 0), ordinal)

\* line 671: whether send_group_message waits for the echo
NeedsEcho(p, record) == p.echo_to_sender /\ record.ordinal = None

\* lines 720-721: the correlation of a notification with the send
EchoMatches(notification, chat_group_id, chat_id) ==
    notification.chat_group_id = chat_group_id /\ notification.chat_id = chat_id

\* lines 679-680: the backfill from the matched notification
Backfill(record, notification) ==
    [record EXCEPT !.ordinal = Some(notification.ordinal),
                   !.server_timestamp = Some(notification.timestamp)]

\* update_preprocessed_from_notification taking the notification's text for
\* the original one as well
update_preprocessed_replaces_original(preprocessed, notification) ==
    PreprocessedMessage(notification.message, notification.message,
                        parse_bbcode(notification.message),
                        extract_mentions(notification.message),
                        Some(notification.timestamp), Some(notification.ordinal))

update_preprocessed_from_notification(preprocessed, notification) ==
    PreprocessedMessage(preprocessed.original_message, notification.message,
                        parse_bbcode(notification.message),
                        extract_mentions(notification.message),
                        Some(notification.timestamp), Some(notification.ordinal))

\* lines 890-901 of delete_group_messages: the request and its Message
\* structs, one per (server_timestamp, ordinal) tuple, in order
delete_messages_request(chat_group_id, chat_id, messages) ==
    [chat_group_id |-> chat_group_id,
     chat_id |-> chat_id,
     messages |-> [k \in 1..Len(messages) |->
                      [server_timestamp |-> messages[k][1], ordinal |-> messages[k][2]]]]

\* EnhancedGroupChatMessage::from_notification; sender_steam_id and chat_name
\* are copied from the notification like the fields kept here
from_notification(notification) ==
    [chat_group_id |-> notification.chat_group_id,
     chat_id |-> notification.chat_id,
     message |-> notification.message,
     timestamp |-> notification.timestamp,
     ordinal |-> notification.ordinal,
     preprocessed |-> preprocess_message(notification.message)]

----------------------------------------------------------------------------
(* Inputs of the parser: every concatenation of at most MaxPieces fragments, *)
(* every concatenation of at most MaxUnits whole spans and literals, every   *)
(* text [t]body[/t] with t allow-listed and a short body, and the texts of   *)
(* the tests.                                                                *)

MaxPieces == 4
MaxUnits == 3
MaxBody == 2

RECURSIVE Strings(_, _)
Strings(frags, n) ==
    IF n = 0 THEN {<<>>}
    ELSE LET shorter == Strings(frags, n - 1)
         IN  shorter \cup {s \o f : s \in shorter, f \in frags}

ParseFragments ==
    {<<"[">>, <<"]">>, <<"=">>, <<" ">>, <<"o","g">>, <<"O","G">>, <<"x">>}

ParseUnits ==
    { <<"x">>, <<" ">>, <<"[">>, <<"]">>,
      <<"[","o","g","]">>, <<"[","x","]">>, <<"[","O","G","]">>,
      <<"[","/","o","g","]">>, <<"["," ","o","g"," ","]">>,
      <<"[","o","g","=","x","]">>, <<"[","o","g"," ","="," ","x"," ","]">>,
      <<"[","o","g","=","x","=","x","]">>, <<"[","o","g","="," ","]">> }

BodyFragments == {<<"x">>, <<" ">>, <<"=">>, <<"o","g">>}

Bodies == Strings(BodyFragments, MaxBody) \ {<<>>}

AllowedSet == {ALLOWED_BBCODE_TAGS[k] : k \in 1..Len(ALLOWED_BBCODE_TAGS)}

Wrapped(t, body) == <<"[">> \o t \o <<"]">> \o body \o <<"[", "/">> \o t \o <<"]">>

WrappedTexts == {Wrapped(t, body) : t \in AllowedSet, body \in Bodies}

\* the texts of the parser's tests and documented examples
ExampleTexts ==
    { <<"H","e","l","l","o"," ","[","b","]","w","o","r","l","d","[","/","b","]">>,
      <<"[","u","n","k","n","o","w","n","]","v","a","l","u","e",
        "[","/","u","n","k","n","o","w","n","]">>,
      <<"[","s","p","o","i","l","e","r","]","h","i","d","d","e","n",
        "[","/","s","p","o","i","l","e","r","]">> }

\* raw texts as a sender writes them, with brackets escaped by a backslash
MaxEscapedUnits == 2

EscapedUnits ==
    { <<"\\","[","o","g","]">>, <<"\\","[","o","g","\\","]">>,
      <<"\\","[","x","]">>, <<"\\","[","o","g","=","x","]">>,
      <<"[","o","g","]">>, <<"x">> }

EscapedTexts == Strings(EscapedUnits, MaxEscapedUnits)

ParseInputs ==
    Strings(ParseFragments, MaxPieces) \cup Strings(ParseUnits, MaxUnits)
        \cup WrappedTexts \cup ExampleTexts \cup EscapedTexts

----------------------------------------------------------------------------
(* One call of parse_bbcode, statement by statement *)

ParseIdle ==
    /\ p_pc = "idle"
    /\ message = <<>>
    /\ parsed = <<>>
    /\ current_text = <<>>
    /\ i = 0
    /\ p_result = <<>>

MentionsIdle ==
    /\ m_pc = "idle"
    /\ m_text = <<>>
    /\ m_tokens = <<>>
    /\ mentions = NoMentions
    /\ m_result = None

ResponseIdle ==
    /\ r_pc = "idle"
    /\ r_args = None
    /\ r_out = None

SendIdle ==
    /\ s_pc = "idle"
    /\ params = None
    /\ request = None
    /\ response = None
    /\ final_preprocessed = None
    /\ s_result = None
    /\ warned = FALSE
    /\ cursor = None
    /\ taken = None
    /\ stream = <<>>
    /\ timed_out = FALSE

PrepareIdle ==
    /\ u_pc = "idle"
    /\ u_message = <<>>
    /\ u_out = None

RecordIdle ==
    /\ rec_raw = <<>>
    /\ rec = None
    /\ rec_op = "idle"
    /\ rec_steps = 0

DispatchIdle ==
    /\ d_pc = "idle"
    /\ inner = <<>>
    /\ d_taken = 0
    /\ d_item = None
    /\ d_log = <<>>
    /\ d_result = None

DeleteIdle ==
    /\ del_pc = "idle"
    /\ del_args = None
    /\ del_next = 0
    /\ message_identifiers = <<>>
    /\ skipped_count = 0
    /\ del_requests = <<>>
    /\ del_result = None

LogonIdle ==
    /\ l_pc = "idle"
    /\ l_call = "none"
    /\ l_world = None
    /\ server_list = None
    /\ connection = None
    /\ l_result = None

TwoSendsIdle ==
    /\ calls = <<>>
    /\ room_stream = <<>>

HelperIdle ==
    /\ h_pc = "idle"
    /\ h_args = <<>>
    /\ h_text = <<>>
    /\ h_out = <<>>

\* the components of the specifications that follow SpecDelete
ExtraIdle == LogonIdle /\ TwoSendsIdle /\ HelperIdle

\* the components added to the ones of the four first specifications
LaterIdle == PrepareIdle /\ RecordIdle /\ DispatchIdle /\ DeleteIdle

OtherThanParse == <<m_vars, r_vars, s_vars, u_vars, rec_vars, d_vars, del_vars, l_vars, t_vars, h_vars>>
OtherThanMentions == <<p_vars, r_vars, s_vars, u_vars, rec_vars, d_vars, del_vars, l_vars, t_vars, h_vars>>
OtherThanResponse == <<p_vars, m_vars, s_vars, u_vars, rec_vars, d_vars, del_vars, l_vars, t_vars, h_vars>>
OtherThanSend == <<p_vars, m_vars, r_vars, u_vars, rec_vars, d_vars, del_vars, l_vars, t_vars, h_vars>>
OtherThanPrepare == <<p_vars, m_vars, r_vars, s_vars, rec_vars, d_vars, del_vars, l_vars, t_vars, h_vars>>
OtherThanRecord == <<p_vars, m_vars, r_vars, s_vars, u_vars, d_vars, del_vars, l_vars, t_vars, h_vars>>
OtherThanDispatch == <<p_vars, m_vars, r_vars, s_vars, u_vars, rec_vars, del_vars, l_vars, t_vars, h_vars>>
OtherThanDelete == <<p_vars, m_vars, r_vars, s_vars, u_vars, rec_vars, d_vars, l_vars, t_vars, h_vars>>
OtherThanLogon == <<p_vars, m_vars, r_vars, s_vars, u_vars, rec_vars, d_vars, del_vars, t_vars, h_vars>>
OtherThanTwoSends ==
    <<p_vars, m_vars, r_vars, s_vars, u_vars, rec_vars, d_vars, del_vars, l_vars, h_vars>>
OtherThanHelper ==
    <<p_vars, m_vars, r_vars, s_vars, u_vars, rec_vars, d_vars, del_vars, l_vars, t_vars>>

InitParse ==
    /\ MentionsIdle /\ ResponseIdle /\ SendIdle /\ LaterIdle /\ ExtraIdle
    /\ p_pc = "call"
    /\ message \in ParseInputs
    /\ parsed = <<>>
    /\ current_text = <<>>
    /\ i = 0
    /\ p_result = <<>>

\* lines 398-404: the early return, or the locals
ParseCall ==
    /\ p_pc = "call"
    /\ LET entry == ParseEntry(message) IN
       /\ parsed' = entry.st.parsed
       /\ current_text' = entry.st.current_text
       /\ i' = entry.st.i
       /\ IF entry.ret # None
          THEN p_pc' = "done" /\ p_result' = entry.ret[1]
          ELSE p_pc' = "loop" /\ p_result' = p_result
    /\ UNCHANGED <<message, OtherThanParse>>

\* lines 406-435: one iteration of the while loop
ParseLoopIter ==
    /\ p_pc = "loop"
    /\ i < Len(message)
    /\ LET st == ParseIter(ALLOWED_BBCODE_TAGS, message,
                           [parsed |-> parsed, current_text |-> current_text,
                            i |-> i, brk |-> FALSE])
       IN  /\ parsed' = st.parsed
           /\ current_text' = st.current_text
           /\ i' = st.i
           /\ p_pc' = IF st.brk THEN "flush" ELSE "loop"
    /\ UNCHANGED <<message, p_result, OtherThanParse>>

\* line 406: the loop condition fails
ParseLoopExit ==
    /\ p_pc = "loop"
    /\ ~(i < Len(message))
    /\ p_pc' = "flush"
    /\ UNCHANGED <<message, parsed, current_text, i, p_result, OtherThanParse>>

\* lines 437-441: flush the pending text and return
ParseReturn ==
    /\ p_pc = "flush"
    /\ p_result' = ParseFlush([parsed |-> parsed, current_text |-> current_text,
                               i |-> i, brk |-> FALSE])
    /\ p_pc' = "done"
    /\ UNCHANGED <<message, parsed, current_text, i, OtherThanParse>>

NextParse == ParseCall \/ ParseLoopIter \/ ParseLoopExit \/ ParseReturn

vars ==
    <<p_vars, m_vars, r_vars, s_vars, u_vars, rec_vars, d_vars, del_vars, l_vars, t_vars,
      h_vars>>

SpecParse == InitParse /\ [][NextParse]_vars

\* the statement-by-statement run returns what the function computes
ParseRunIsFunction == p_pc = "done" => p_result = parse_bbcode(message)

----------------------------------------------------------------------------
(* One call of extract_mentions, token by token *)

MaxMentionPieces == 4

MentionFragments ==
    { MENTION_ALL, MENTION_HERE, <<" ">>, <<"!">>, <<"x">>, STEAM_ID_PREFIX,
      <<"7">>, <<"]">> }

\* the texts of the extractor's tests and documented examples
MentionExamples ==
    { <<"e","m","a","i","l","@","a","l","l",".","c","o","m">>,
      <<"H","e","l","l","o"," ","@","a","l","l"," ","a","n","d"," ","@","h","e","r","e","!">>,
      <<"H","e","l","l","o"," ","@","a","l","l"," ","a","n","d"," ","@","h","e","r","e"," ","u","s","e","r","s","!">>,
      <<"p","i","n","g"," ","[","U",":","1",":","1","5","3","1","0","5","9","3","5","5","]">> }

MaxMentionUnits == 3

SteamIdToken(account) == STEAM_ID_PREFIX \o account \o <<"]">>

\* whole tokens after a separator: Steam IDs that parse and id-shaped tokens
\* that do not; a token without separator and a punctuation character
MentionUnits ==
    { <<" ">> \o SteamIdToken(<<"7">>), <<" ">> \o SteamIdToken(<<"0", "8">>),
      <<" ">> \o SteamIdToken(<<"x">>),
      <<" ">> \o SteamIdToken(<<"4", "2", "9", "4", "9", "6", "7", "2", "9", "6">>),
      SteamIdToken(<<"7">>), <<"!">> }

\* the largest account id, an id of eleven digits, and ids next to broadcasts
MentionIdExamples ==
    { SteamIdToken(U32MaxDigits),
      SteamIdToken(<<"0", "0", "0", "0", "0", "0", "0", "0", "0", "0", "7">>),
      SteamIdToken(<<>>),
      MENTION_ALL \o <<" ">> \o SteamIdToken(<<"7">>) \o <<" ">> \o MENTION_HERE,
      SteamIdToken(<<"7">>) \o <<",", " ">> \o MENTION_ALL }

MentionInputs ==
    Strings(MentionFragments, MaxMentionPieces) \cup Strings(MentionUnits, MaxMentionUnits)
        \cup MentionExamples \cup MentionIdExamples

InitMentions ==
    /\ ParseIdle /\ ResponseIdle /\ SendIdle /\ LaterIdle /\ ExtraIdle
    /\ m_pc = "call"
    /\ m_text \in MentionInputs
    /\ m_tokens = <<>>
    /\ mentions = NoMentions
    /\ m_result = None

\* lines 169-175: the empty ChatMentions and the token iterator
ExtractCall ==
    /\ m_pc = "call"
    /\ mentions' = NoMentions
    /\ m_tokens' = split_whitespace(m_text)
    /\ m_pc' = "loop"
    /\ UNCHANGED <<m_text, m_result, OtherThanMentions>>

\* lines 175-177: one token
ExtractToken ==
    /\ m_pc = "loop"
    /\ m_tokens # <<>>
    /\ mentions' = process_mention_token(Head(m_tokens), mentions)
    /\ m_tokens' = Tail(m_tokens)
    /\ UNCHANGED <<m_pc, m_text, m_result, OtherThanMentions>>

\* lines 179-183: Some when any signal fired
ExtractReturn ==
    /\ m_pc = "loop"
    /\ m_tokens = <<>>
    /\ m_result' = MentionsReturn(mentions)
    /\ m_pc' = "done"
    /\ UNCHANGED <<m_text, m_tokens, mentions, OtherThanMentions>>

NextMentions == ExtractCall \/ ExtractToken \/ ExtractReturn

SpecMentions == InitMentions /\ [][NextMentions]_vars

\* the token-by-token run returns what the function computes
ExtractRunIsFunction == m_pc = "done" => m_result = extract_mentions(m_text)

----------------------------------------------------------------------------
(* One call of process_response *)

MaxU32 == 2

\* the u32 values the model draws
U32Samples == 0..MaxU32

SampleTexts ==
    { <<>>, <<"x">>, MENTION_ALL, <<"[", "o", "g", "]", "x">>,
      <<"\\", "[", "x", "\\", "]">> }

InitResponse ==
    /\ ParseIdle /\ MentionsIdle /\ SendIdle /\ LaterIdle /\ ExtraIdle
    /\ r_pc = "call"
    /\ r_args \in [original_message : SampleTexts, modified_message : SampleTexts,
                    server_timestamp : U32Samples, ordinal : U32Samples]
    /\ r_out = None

\* lines 220-239
ProcessResponse ==
    /\ r_pc = "call"
    /\ r_out' = Some(process_response(r_args.original_message, r_args.modified_message,
                                      r_args.server_timestamp, r_args.ordinal))
    /\ r_pc' = "done"
    /\ UNCHANGED <<r_args, OtherThanResponse>>

NextResponse == ProcessResponse

SpecResponse == InitResponse /\ [][NextResponse]_vars

----------------------------------------------------------------------------
(* One call of send_group_message on a connection that also delivers        *)
(* notifications.  The caller's room is (1, 1).                             *)

MaxStream == 2

SendTexts == { <<"x">>, <<"\\", "[", "o", "g", "\\", "]", " ", "@", "a", "l", "l">> }

SendParams ==
    [chat_group_id : {1}, chat_id : {1}, message : SendTexts, echo_to_sender : BOOLEAN]

\* CChatRoom_SendChatMessage_Response: each field may be absent
Responses(p) ==
    [modified_message : {None, Some(prepare_message_for_sending(p.message))},
     server_timestamp : {Some(1)},
     ordinal : {None} \cup {Some(n) : n \in U32Samples}]

\* CChatRoom_IncomingChatMessage_Notification
Notifications ==
    [chat_group_id : {1, 2}, chat_id : {1, 2}, ordinal : {0, 2}, timestamp : {3}]
        \ [chat_group_id : {2}, chat_id : {2}, ordinal : {0, 2}, timestamp : {3}]

InitSend ==
    /\ ParseIdle /\ MentionsIdle /\ ResponseIdle /\ LaterIdle /\ ExtraIdle
    /\ s_pc = "call"
    /\ params \in SendParams
    /\ request = None
    /\ response = None
    /\ final_preprocessed = None
    /\ s_result = None
    /\ warned = FALSE
    /\ cursor = None
    /\ taken = None
    /\ stream = <<>>
    /\ timed_out = FALSE

\* lines 664-666: the request is built and handed to service_method
SendRequest ==
    /\ s_pc = "call"
    /\ request' = Some(build_send_message_request(params))
    /\ s_pc' = "await_response"
    /\ UNCHANGED <<params, response, final_preprocessed, s_result, warned, cursor, taken,
                   stream, timed_out, OtherThanSend>>

\* TransportError going on to the echo wait with a record built from the
\* text alone
TransportErrorWaitsForEcho ==
    /\ s_pc = "await_response"
    /\ final_preprocessed' = Some(preprocess_message(params.message))
    /\ cursor' = Some(Len(stream))
    /\ s_result' = Ok(preprocess_message(params.message))
    /\ s_pc' = "done"
    /\ UNCHANGED <<params, request, response, warned, taken, stream, timed_out,
                   OtherThanSend>>

\* line 666: service_method fails and ? returns the error
TransportError ==
    /\ s_pc = "await_response"
    /\ s_result' = Err("transport")
    /\ s_pc' = "done"
    /\ UNCHANGED <<params, request, response, final_preprocessed, warned, cursor, taken,
                   stream, timed_out, OtherThanSend>>

\* lines 666-698: the response arrives and the call runs on to its return, or
\* to the first await of the echo wait (lines 709-718), which subscribes
ResponseArrives ==
    /\ s_pc = "await_response"
    /\ \E resp \in Responses(params) :
          LET record == process_send_message_response(params, resp) IN
          /\ response' = Some(resp)
          /\ final_preprocessed' = Some(record)
          /\ IF NeedsEcho(params, record)
             THEN /\ cursor' = Some(Len(stream))
                  /\ s_pc' = "wait_echo"
                  /\ s_result' = s_result
             ELSE /\ cursor' = cursor
                  /\ s_pc' = "done"
                  /\ s_result' = Ok(record)
    /\ UNCHANGED <<params, request, warned, taken, stream, timed_out, OtherThanSend>>

\* lines 718-724: the subscription yields a notification; a match is backfilled
\* into the record and returned (lines 679-680, 697), another room's is skipped
EchoTake ==
    /\ s_pc = "wait_echo"
    /\ ~timed_out
    /\ cursor[1] < Len(stream)
    /\ LET notification == stream[cursor[1] + 1] IN
       IF EchoMatches(notification, params.chat_group_id, params.chat_id)
       THEN /\ taken' = Some(notification)
            /\ final_preprocessed' = Some(Backfill(final_preprocessed[1], notification))
            /\ s_result' = Ok(Backfill(final_preprocessed[1], notification))
            /\ s_pc' = "done"
            /\ cursor' = cursor
       ELSE /\ cursor' = Some(cursor[1] + 1)
            /\ UNCHANGED <<taken, final_preprocessed, s_result, s_pc>>
    /\ UNCHANGED <<params, request, response, warned, stream, timed_out, OtherThanSend>>

\* lines 725-727, 681-687: the stream ends or yields an error; the call warns
\* and returns the record as it is
EchoStreamEnds ==
    /\ s_pc = "wait_echo"
    /\ ~timed_out
    /\ warned' = TRUE
    /\ s_result' = Ok(final_preprocessed[1])
    /\ s_pc' = "done"
    /\ UNCHANGED <<params, request, response, final_preprocessed, cursor, taken, stream,
                   timed_out, OtherThanSend>>

\* lines 729-734, 681-687: the timeout elapses; the call warns and returns the
\* record as it is
EchoTimeout ==
    /\ s_pc = "wait_echo"
    /\ timed_out
    /\ warned' = TRUE
    /\ s_result' = Ok(final_preprocessed[1])
    /\ s_pc' = "done"
    /\ UNCHANGED <<params, request, response, final_preprocessed, cursor, taken, stream,
                   timed_out, OtherThanSend>>

\* ServerNotify with the call's record following every notification for its room
ServerNotifyOverwrites ==
    /\ s_pc \in {"await_response", "wait_echo", "done"}
    /\ Len(stream) < MaxStream
    /\ \E n \in Notifications :
          /\ stream' = Append(stream, [notification |-> n,
                                       in_window |-> response # None /\ ~timed_out])
          /\ final_preprocessed' =
                IF final_preprocessed # None
                   /\ EchoMatches(n, params.chat_group_id, params.chat_id)
                THEN Some(Backfill(final_preprocessed[1], n))
                ELSE final_preprocessed
    /\ UNCHANGED <<s_pc, params, request, response, s_result, warned,
                   cursor, taken, timed_out, OtherThanSend>>

\* the server delivers a notification on the connection, once the request is out
ServerNotify ==
    /\ s_pc \in {"await_response", "wait_echo", "done"}
    /\ Len(stream) < MaxStream
    /\ \E n \in Notifications :
          stream' = Append(stream, [notification |-> n,
                                    in_window |-> response # None /\ ~timed_out])
    /\ UNCHANGED <<s_pc, params, request, response, final_preprocessed, s_result, warned,
                   cursor, taken, timed_out, OtherThanSend>>

\* five seconds pass after the response was processed
TimePasses ==
    /\ response # None
    /\ ~timed_out
    /\ timed_out' = TRUE
    /\ UNCHANGED <<s_pc, params, request, response, final_preprocessed, s_result, warned,
                   cursor, taken, stream, OtherThanSend>>

\* The echo wait is entered from a record without ordinal only.  No record that
\* process_send_message_response builds is one (SendNeverWaits), so EchoTake,
\* EchoStreamEnds and EchoTimeout are no steps of a run of send_group_message.
NextSend == SendRequest \/ TransportError \/ ResponseArrives \/ ServerNotify \/ TimePasses

SpecSend == InitSend /\ [][NextSend]_vars

SendNeverWaits == s_pc # "wait_echo"

----------------------------------------------------------------------------
(* One call of prepare_message_for_sending *)

MaxPrepareLen == 4

PrepareFragments == { <<"\\">>, <<"[">>, <<"]">>, <<"x">> }

\* the text of the test of lines 528-533
PrepareExamples ==
    { <<"L","o","o","k"," ","a","t"," ","\\","[","b","\\","]","e","s","c","a","p","e","d"," ",
        "b","r","a","c","k","e","t","s","\\","[","/","b","\\","]">> }

PrepareInputs == Strings(PrepareFragments, MaxPrepareLen) \cup PrepareExamples

InitPrepare ==
    /\ ParseIdle /\ MentionsIdle /\ ResponseIdle /\ SendIdle
    /\ RecordIdle /\ DispatchIdle /\ DeleteIdle /\ ExtraIdle
    /\ u_pc = "call"
    /\ u_message \in PrepareInputs
    /\ u_out = None

\* lines 213-217
PrepareForSending ==
    /\ u_pc = "call"
    /\ u_out' = Some(prepare_message_for_sending(u_message))
    /\ u_pc' = "done"
    /\ UNCHANGED <<u_message, OtherThanPrepare>>

NextPrepare == PrepareForSending

SpecPrepare == InitPrepare /\ [][NextPrepare]_vars

----------------------------------------------------------------------------
(* One PreprocessedMessage through the operations that construct and        *)
(* rebuild records: the raw text is the caller's, the other inputs are the  *)
(* server's.                                                                *)

MaxRecordSteps == 3

\* CChatRoom_IncomingChatMessage_Notification, the fields the record takes
RecordNotifications ==
    [message : SampleTexts, timestamp : U32Samples, ordinal : U32Samples,
     chat_group_id : {1}, chat_id : {1}]

RecordParams == [chat_group_id |-> 1, chat_id |-> 1, message |-> rec_raw, echo_to_sender |-> TRUE]

InitRecord ==
    /\ ParseIdle /\ MentionsIdle /\ ResponseIdle /\ SendIdle
    /\ PrepareIdle /\ DispatchIdle /\ DeleteIdle /\ ExtraIdle
    /\ rec_raw \in SampleTexts
    /\ rec = None
    /\ rec_op = "none"
    /\ rec_steps = 0

\* preprocessing.rs lines 147-160
RecordPreprocess ==
    /\ rec_steps < MaxRecordSteps
    /\ rec' = Some(preprocess_message(rec_raw))
    /\ rec_op' = "preprocess_message"
    /\ rec_steps' = rec_steps + 1
    /\ UNCHANGED <<rec_raw, OtherThanRecord>>

\* preprocessing.rs lines 220-239, called with the caller's text as original
RecordProcessResponse ==
    /\ rec_steps < MaxRecordSteps
    /\ \E modified \in SampleTexts, ts \in U32Samples, ord \in U32Samples :
          rec' = Some(process_response(rec_raw, modified, ts, ord))
    /\ rec_op' = "process_response"
    /\ rec_steps' = rec_steps + 1
    /\ UNCHANGED <<rec_raw, OtherThanRecord>>

\* chatroom.rs line 667: the record send_group_message builds from the response
RecordSendResponse ==
    /\ rec_steps < MaxRecordSteps
    /\ \E resp \in Responses(RecordParams) :
          rec' = Some(process_send_message_response(RecordParams, resp))
    /\ rec_op' = "send_group_message"
    /\ rec_steps' = rec_steps + 1
    /\ UNCHANGED <<rec_raw, OtherThanRecord>>

\* chatroom.rs lines 783-795, on the record at hand
RecordUpdateFromNotification ==
    /\ rec_steps < MaxRecordSteps
    /\ rec # None
    /\ \E notification \in RecordNotifications :
          rec' = Some(update_preprocessed_from_notification(rec[1], notification))
    /\ rec_op' = "update_preprocessed_from_notification"
    /\ rec_steps' = rec_steps + 1
    /\ UNCHANGED <<rec_raw, OtherThanRecord>>

NextRecord ==
    RecordPreprocess \/ RecordProcessResponse \/ RecordSendResponse
        \/ RecordUpdateFromNotification

SpecRecord == InitRecord /\ [][NextRecord]_vars

----------------------------------------------------------------------------
(* One dispatch loop: listen_for_group_messages_with running                *)
(* NotificationStream::for_each over the group stream.  inner is the whole  *)
(* sequence of items the stream yields and d_taken the loop's position.     *)

MaxItems == 3

DispatchNotifications ==
    [message : {<<"x">>, MENTION_ALL}, timestamp : {3}, ordinal : {0, 2},
     chat_group_id : {1}, chat_id : {1}]

\* Result<T, steam_vent::NetworkError>
StreamItems == {Ok(n) : n \in DispatchNotifications} \cup {Err("network")}

StreamsUpTo(n) == UNION {[1..k -> StreamItems] : k \in 0..n}

InitDispatch ==
    /\ ParseIdle /\ MentionsIdle /\ ResponseIdle /\ SendIdle
    /\ PrepareIdle /\ RecordIdle /\ DeleteIdle /\ ExtraIdle
    /\ d_pc = "next"
    /\ inner \in StreamsUpTo(MaxItems)
    /\ d_taken = 0
    /\ d_item = None
    /\ d_log = <<>>
    /\ d_result = None

\* DispatchTake yielding the items from the end of the stream
DispatchTakeLast ==
    /\ d_pc = "next"
    /\ d_taken < Len(inner)
    /\ LET result == inner[Len(inner) - d_taken] IN
       /\ d_taken' = d_taken + 1
       /\ IF result.ok
          THEN /\ d_item' = Some(from_notification(result.value))
               /\ d_log' = Append(d_log, [ev |-> "call", n |-> d_taken + 1,
                                          item |-> result.value,
                                          message |-> from_notification(result.value)])
               /\ d_pc' = "handler"
          ELSE /\ d_item' = None
               /\ d_log' = Append(d_log, [ev |-> "error", n |-> d_taken + 1])
               /\ d_pc' = "sleep"
    /\ UNCHANGED <<inner, d_result, OtherThanDispatch>>

\* lines 519-522 and 1023-1025: next().await yields an item; an Ok item is
\* turned into an EnhancedGroupChatMessage and the handler is entered with
\* it, an Err item starts the backoff sleep
DispatchTake ==
    /\ d_pc = "next"
    /\ d_taken < Len(inner)
    /\ LET result == inner[d_taken + 1] IN
       /\ d_taken' = d_taken + 1
       /\ IF result.ok
          THEN /\ d_item' = Some(from_notification(result.value))
               /\ d_log' = Append(d_log, [ev |-> "call", n |-> d_taken + 1,
                                          item |-> result.value,
                                          message |-> from_notification(result.value)])
               /\ d_pc' = "handler"
          ELSE /\ d_item' = None
               /\ d_log' = Append(d_log, [ev |-> "error", n |-> d_taken + 1])
               /\ d_pc' = "sleep"
    /\ UNCHANGED <<inner, d_result, OtherThanDispatch>>

\* DispatchReturn going on after a handler failure
DispatchReturnIgnoresFailure ==
    /\ d_pc = "handler"
    /\ \E ok \in BOOLEAN :
          /\ d_log' = Append(d_log, [ev |-> "return", n |-> d_taken, ok |-> ok])
          /\ d_pc' = "next"
          /\ d_result' = d_result
    /\ d_item' = None
    /\ UNCHANGED <<inner, d_taken, OtherThanDispatch>>

\* lines 521 and 1025: the handler returns; Ok(()) goes back to the loop
\* head, an error leaves for_each through ? as Callback { source }
DispatchReturn ==
    /\ d_pc = "handler"
    /\ \E ok \in BOOLEAN :
          /\ d_log' = Append(d_log, [ev |-> "return", n |-> d_taken, ok |-> ok])
          /\ IF ok
             THEN d_pc' = "next" /\ d_result' = d_result
             ELSE d_pc' = "done" /\ d_result' = Err([kind |-> "Callback", n |-> d_taken])
    /\ d_item' = None
    /\ UNCHANGED <<inner, d_taken, OtherThanDispatch>>

\* DispatchWake going back to the loop head after the backoff
DispatchWakeResumes ==
    /\ d_pc = "sleep"
    /\ d_log' = Append(d_log, [ev |-> "backoff", n |-> d_taken])
    /\ d_pc' = "next"
    /\ UNCHANGED <<inner, d_taken, d_item, d_result, OtherThanDispatch>>

\* lines 523-524: sleep(self.backoff) is over; for_each returns Stream(err)
DispatchWake ==
    /\ d_pc = "sleep"
    /\ d_log' = Append(d_log, [ev |-> "backoff", n |-> d_taken])
    /\ d_result' = Err([kind |-> "Stream", n |-> d_taken])
    /\ d_pc' = "done"
    /\ UNCHANGED <<inner, d_taken, d_item, OtherThanDispatch>>

\* lines 519 and 529: the stream is over; for_each returns Ok(())
DispatchEnd ==
    /\ d_pc = "next"
    /\ d_taken = Len(inner)
    /\ d_result' = Ok(<<>>)
    /\ d_pc' = "done"
    /\ UNCHANGED <<inner, d_taken, d_item, d_log, OtherThanDispatch>>

NextDispatch == DispatchTake \/ DispatchReturn \/ DispatchWake \/ DispatchEnd

SpecDispatch == InitDispatch /\ [][NextDispatch]_vars

----------------------------------------------------------------------------
(* One call of delete_group_messages_from_preprocessed *)

MaxDeleteRecords == 3

\* records as send_group_message, preprocess_message and the listeners return
\* them: each of the two identifiers present or not
DeleteRecords ==
    { PreprocessedMessage(<<"x">>, <<"x">>, parse_bbcode(<<"x">>), None, ts, ord) :
        ts \in {None, Some(1), Some(2)}, ord \in {None, Some(0)} }

DeleteInputs == UNION {[1..k -> DeleteRecords] : k \in 0..MaxDeleteRecords}

InitDelete ==
    /\ ParseIdle /\ MentionsIdle /\ ResponseIdle /\ SendIdle
    /\ PrepareIdle /\ RecordIdle /\ DispatchIdle /\ ExtraIdle
    /\ del_pc = "call"
    /\ del_args \in [chat_group_id : {1}, chat_id : {1}, messages : DeleteInputs]
    /\ del_next = 0
    /\ message_identifiers = <<>>
    /\ skipped_count = 0
    /\ del_requests = <<>>
    /\ del_result = None

\* lines 961-963
DeleteCall ==
    /\ del_pc = "call"
    /\ message_identifiers' = <<>>
    /\ skipped_count' = 0
    /\ del_next' = 0
    /\ del_pc' = "loop"
    /\ UNCHANGED <<del_args, del_requests, del_result, OtherThanDelete>>

\* DeleteVisit taking 0 for a missing identifier
DeleteVisitKeepsAll ==
    /\ del_pc = "loop"
    /\ del_next < Len(del_args.messages)
    /\ LET msg == del_args.messages[del_next + 1] IN
       /\ message_identifiers' =
              Append(message_identifiers,
                     <<FieldOr(msg.server_timestamp, 0), FieldOr(msg.ordinal, 0)>>)
       /\ skipped_count' = skipped_count
    /\ del_next' = del_next + 1
    /\ UNCHANGED <<del_pc, del_args, del_requests, del_result, OtherThanDelete>>

\* lines 965-977: one record of the for loop
DeleteVisit ==
    /\ del_pc = "loop"
    /\ del_next < Len(del_args.messages)
    /\ LET msg == del_args.messages[del_next + 1] IN
       IF msg.server_timestamp # None /\ msg.ordinal # None
       THEN /\ message_identifiers' =
                   Append(message_identifiers, <<msg.server_timestamp[1], msg.ordinal[1]>>)
            /\ skipped_count' = skipped_count
       ELSE /\ skipped_count' = skipped_count + 1
            /\ message_identifiers' = message_identifiers
    /\ del_next' = del_next + 1
    /\ UNCHANGED <<del_pc, del_args, del_requests, del_result, OtherThanDelete>>

\* lines 979-998: nothing to delete is an error; otherwise
\* delete_group_messages is called
DeleteCheck ==
    /\ del_pc = "loop"
    /\ del_next = Len(del_args.messages)
    /\ IF message_identifiers = <<>>
       THEN /\ del_result' = Err(IF skipped_count > 0 THEN "all missing" ELSE "empty list")
            /\ del_pc' = "done"
       ELSE /\ del_result' = del_result
            /\ del_pc' = "delete"
    /\ UNCHANGED <<del_args, del_next, message_identifiers, skipped_count, del_requests,
                   OtherThanDelete>>

\* lines 884-902: delete_group_messages up to the await of service_method
DeleteGroupMessages ==
    /\ del_pc = "delete"
    /\ IF message_identifiers = <<>>
       THEN /\ del_result' = Err("empty list")
            /\ del_requests' = del_requests
            /\ del_pc' = "done"
       ELSE /\ del_requests' =
                   Append(del_requests,
                          delete_messages_request(del_args.chat_group_id, del_args.chat_id,
                                                  message_identifiers))
            /\ del_result' = del_result
            /\ del_pc' = "await_response"
    /\ UNCHANGED <<del_args, del_next, message_identifiers, skipped_count, OtherThanDelete>>

\* lines 901-911: the response, or the transport's error through ?
DeleteResponse ==
    /\ del_pc = "await_response"
    /\ \E ok \in BOOLEAN :
          del_result' = IF ok THEN Ok("response") ELSE Err("transport")
    /\ del_pc' = "done"
    /\ UNCHANGED <<del_args, del_next, message_identifiers, skipped_count, del_requests,
                   OtherThanDelete>>

NextDelete ==
    DeleteCall \/ DeleteVisit \/ DeleteCheck \/ DeleteGroupMessages \/ DeleteResponse

SpecDelete == InitDelete /\ [][NextDelete]_vars

----------------------------------------------------------------------------
(* logon.rs: one call of KetherSteamClient::new or new_anonymous.  l_world  *)
(* is what the network answers: whether discovery and login succeed, and    *)
(* the ids the established connection reports.                              *)

\* Connection::session_id is an i32
SessionSamples == {-1, 0, 1}

LogonWorlds ==
    [discovery_ok : BOOLEAN, login_ok : BOOLEAN,
     account_id : U32Samples, session_id : SessionSamples]

\* ensure_valid_connection checking the Steam ID only
ensure_valid_connection_ignores_session(conn) ==
    IF conn.account_id = 0 THEN Err("steam ID missing after login")
    ELSE Ok(<<>>)

\* lines 282-293
ensure_valid_connection(conn) ==
    IF conn.account_id = 0 THEN Err("steam ID missing after login")
    ELSE IF conn.session_id = 0 THEN Err("session ID not assigned")
    ELSE Ok(<<>>)

\* lines 56-60
validate_and_finalize_connection(conn) ==
    IF ensure_valid_connection(conn).ok THEN Ok(conn) ELSE ensure_valid_connection(conn)

InitLogon ==
    /\ ParseIdle /\ MentionsIdle /\ ResponseIdle /\ SendIdle /\ LaterIdle
    /\ TwoSendsIdle /\ HelperIdle
    /\ l_pc = "call"
    /\ l_call \in {"new", "new_anonymous"}
    /\ l_world \in LogonWorlds
    /\ server_list = None
    /\ connection = None
    /\ l_result = None

\* lines 24-26 and 41-43: bootstrap::discover_servers
LogonDiscover ==
    /\ l_pc = "call"
    /\ IF l_world.discovery_ok
       THEN /\ server_list' = Some("servers")
            /\ l_pc' = "login"
            /\ l_result' = l_result
       ELSE /\ server_list' = server_list
            /\ l_pc' = "done"
            /\ l_result' = Err("discovery")
    /\ UNCHANGED <<l_call, l_world, connection, OtherThanLogon>>

\* lines 27-29 and 44-46: bootstrap::credential_login or anonymous_login
LogonLogin ==
    /\ l_pc = "login"
    /\ IF l_world.login_ok
       THEN /\ connection' = Some([account_id |-> l_world.account_id,
                                   session_id |-> l_world.session_id,
                                   anonymous |-> l_call = "new_anonymous"])
            /\ l_pc' = "validate"
            /\ l_result' = l_result
       ELSE /\ connection' = connection
            /\ l_pc' = "done"
            /\ l_result' = Err("connection")
    /\ UNCHANGED <<l_call, l_world, server_list, OtherThanLogon>>

\* lines 31-35 and 48-52: validate_and_finalize_connection, then Ok(Self)
LogonValidate ==
    /\ l_pc = "validate"
    /\ LET validated == validate_and_finalize_connection(connection[1]) IN
       l_result' = IF validated.ok THEN Ok([connection |-> validated.value])
                   ELSE validated
    /\ l_pc' = "done"
    /\ UNCHANGED <<l_call, l_world, server_list, connection, OtherThanLogon>>

NextLogon == LogonDiscover \/ LogonLogin \/ LogonValidate

SpecLogon == InitLogon /\ [][NextLogon]_vars

----------------------------------------------------------------------------
(* Two send_group_message calls running concurrently on one connection,     *)
(* both into room (1, 1).  The server numbers the message of call c with    *)
(* the ordinal c and echoes it to the sender when asked to.                 *)

CallIds == {1, 2}

OtherCall(c) == 3 - c

CallTexts == [c \in CallIds |-> IF c = 1 THEN <<"x">> ELSE MENTION_ALL]

CallParams(c) ==
    [chat_group_id : {1}, chat_id : {1}, message : {CallTexts[c]}, echo_to_sender : BOOLEAN]

\* the response to call c: the ordinal of its message, or none
CallResponses(c) ==
    [modified_message : {Some(CallTexts[c])}, server_timestamp : {Some(1)},
     ordinal : {None, Some(c)}]

\* the echo of the message of call c
EchoOf(c) ==
    [chat_group_id |-> 1, chat_id |-> 1, message |-> CallTexts[c],
     ordinal |-> c, timestamp |-> 3]

InitTwoSends ==
    /\ ParseIdle /\ MentionsIdle /\ ResponseIdle /\ SendIdle /\ LaterIdle /\ LogonIdle
    /\ HelperIdle
    /\ \E p1 \in CallParams(1), p2 \in CallParams(2) :
          calls = [c \in CallIds |->
                     [pc |-> "call", params |-> IF c = 1 THEN p1 ELSE p2,
                      request |-> None, response |-> None, record |-> None,
                      result |-> None, cursor |-> None, taken |-> None,
                      warned |-> FALSE]]
    /\ room_stream = <<>>

\* lines 664-666 in call c: the request is built and handed to service_method
TwoSendRequest(c) ==
    /\ calls[c].pc = "call"
    /\ calls' = [calls EXCEPT ![c].request = Some(build_send_message_request(calls[c].params)),
                              ![c].pc = "await_response"]
    /\ UNCHANGED <<room_stream, OtherThanTwoSends>>

\* line 666 in call c: service_method fails
TwoTransportError(c) ==
    /\ calls[c].pc = "await_response"
    /\ calls' = [calls EXCEPT ![c].result = Err("transport"), ![c].pc = "done"]
    /\ UNCHANGED <<room_stream, OtherThanTwoSends>>

\* lines 666-698 in call c: the response arrives and the call runs on to its
\* return, or to the first await of the echo wait, which subscribes
TwoResponseArrives(c) ==
    /\ calls[c].pc = "await_response"
    /\ \E resp \in CallResponses(c) :
          LET record == process_send_message_response(calls[c].params, resp) IN
          calls' = [calls EXCEPT
                      ![c].response = Some(resp),
                      ![c].record = Some(record),
                      ![c].cursor = IF NeedsEcho(calls[c].params, record)
                                    THEN Some(Len(room_stream)) ELSE @,
                      ![c].pc = IF NeedsEcho(calls[c].params, record)
                                THEN "wait_echo" ELSE "done",
                      ![c].result = IF NeedsEcho(calls[c].params, record)
                                    THEN @ ELSE Ok(record)]
    /\ UNCHANGED <<room_stream, OtherThanTwoSends>>

\* lines 718-724 and 679-680 in call c: the subscription yields a
\* notification; one for the room is backfilled into the record and returned
TwoEchoTake(c) ==
    /\ calls[c].pc = "wait_echo"
    /\ calls[c].cursor[1] < Len(room_stream)
    /\ LET notification == room_stream[calls[c].cursor[1] + 1].notification IN
       calls' = IF EchoMatches(notification, calls[c].params.chat_group_id,
                               calls[c].params.chat_id)
                THEN [calls EXCEPT
                        ![c].taken = Some(room_stream[calls[c].cursor[1] + 1]),
                        ![c].record = Some(Backfill(calls[c].record[1], notification)),
                        ![c].result = Ok(Backfill(calls[c].record[1], notification)),
                        ![c].pc = "done"]
                ELSE [calls EXCEPT ![c].cursor = Some(calls[c].cursor[1] + 1)]
    /\ UNCHANGED <<room_stream, OtherThanTwoSends>>

\* lines 725-735 and 681-687 in call c: the stream ends or the timeout
\* elapses; the call warns and returns the record as it is
TwoEchoGiveUp(c) ==
    /\ calls[c].pc = "wait_echo"
    /\ calls' = [calls EXCEPT ![c].warned = TRUE,
                              ![c].result = Ok(calls[c].record[1]),
                              ![c].pc = "done"]
    /\ UNCHANGED <<room_stream, OtherThanTwoSends>>

\* the server echoes the message of call c, once, after it got the request;
\* responded is the set of calls that had processed their response by then
TwoServerEcho(c) ==
    /\ calls[c].pc # "call"
    /\ calls[c].params.echo_to_sender
    /\ \A k \in 1..Len(room_stream) : room_stream[k].echo_of # c
    /\ room_stream' = Append(room_stream,
                             [notification |-> EchoOf(c), echo_of |-> c,
                              responded |-> {b \in CallIds : calls[b].response # None}])
    /\ UNCHANGED <<calls, OtherThanTwoSends>>

\* As in SpecSend, no record that process_send_message_response builds lacks
\* the ordinal (TwoSendsNeverWait), so TwoEchoTake and TwoEchoGiveUp are no
\* steps of a run.
NextTwoSends ==
    \E c \in CallIds :
        TwoSendRequest(c) \/ TwoTransportError(c) \/ TwoResponseArrives(c) \/ TwoServerEcho(c)

SpecTwoSends == InitTwoSends /\ [][NextTwoSends]_vars

----------------------------------------------------------------------------
(* helpers::create_message_with_mentions read back by extract_mentions *)

MaxHelperPieces == 2
MaxHelperIds == 2

\* SteamID::steam3 of an individual account of the public universe
steam3(account) == SteamIdToken(account)

create_mention(steam_id) == <<"@">> \o steam3(steam_id)

RECURSIVE create_message_with_mentions(_, _)
create_message_with_mentions(msg, steam_ids) ==
    IF steam_ids = <<>> THEN msg
    ELSE create_message_with_mentions(msg \o <<" ", "@">> \o steam3(Head(steam_ids)),
                                      Tail(steam_ids))

\* texts without a mention
HelperMessages == Strings({<<"x">>, <<" ">>, <<"h","i","!">>}, MaxHelperPieces)

HelperAccounts == {<<"7">>, <<"1","5">>}

HelperIdLists == Strings({<<a>> : a \in HelperAccounts}, MaxHelperIds)

InitMentionHelper ==
    /\ ParseIdle /\ MentionsIdle /\ ResponseIdle /\ SendIdle /\ LaterIdle
    /\ LogonIdle /\ TwoSendsIdle
    /\ h_pc = "call"
    /\ h_args \in [message : HelperMessages, steam_ids : HelperIdLists]
    /\ h_text = <<>>
    /\ h_out = <<>>

\* the call of create_message_with_mentions
MentionHelperBuild ==
    /\ h_pc = "call"
    /\ h_text' = create_message_with_mentions(h_args.message, h_args.steam_ids)
    /\ h_pc' = "built"
    /\ UNCHANGED <<h_args, h_out, OtherThanHelper>>

\* the text handed to extract_mentions
MentionHelperExtract ==
    /\ h_pc = "built"
    /\ h_out' = extract_mentions(h_text)
    /\ h_pc' = "done"
    /\ UNCHANGED <<h_args, h_text, OtherThanHelper>>

NextMentionHelper == MentionHelperBuild \/ MentionHelperExtract

SpecMentionHelper == InitMentionHelper /\ [][NextMentionHelper]_vars

----------------------------------------------------------------------------
(* helpers::format_with_bbcode read back by parse_bbcode *)

MaxFormatPieces == 2

BBCODE_TYPE_SPOILER == <<"s","p","o","i","l","e","r">>
BBCODE_TYPE_CODE == <<"c","o","d","e">>
BBCODE_TYPE_URL == <<"u","r","l">>
BBCODE_TYPE_EMOTICON == <<"e","m","o","t","i","c","o","n">>

BBCodeTypes == {BBCODE_TYPE_SPOILER, BBCODE_TYPE_CODE, BBCODE_TYPE_URL, BBCODE_TYPE_EMOTICON}

\* get_formatter and the five formatters
format_with_bbcode(msg, bbcode_type, value) ==
    CASE bbcode_type = BBCODE_TYPE_SPOILER ->
           <<"[">> \o BBCODE_TYPE_SPOILER \o <<"]">> \o msg
               \o <<"[", "/">> \o BBCODE_TYPE_SPOILER \o <<"]">>
      [] bbcode_type = BBCODE_TYPE_CODE ->
           <<"[">> \o BBCODE_TYPE_CODE \o <<"]">> \o msg
               \o <<"[", "/">> \o BBCODE_TYPE_CODE \o <<"]">>
      [] bbcode_type = BBCODE_TYPE_URL ->
           <<"[">> \o BBCODE_TYPE_URL \o <<"=">> \o value \o <<"]">> \o msg
               \o <<"[", "/">> \o BBCODE_TYPE_URL \o <<"]">>
      [] bbcode_type = BBCODE_TYPE_EMOTICON ->
           <<"[">> \o BBCODE_TYPE_EMOTICON \o <<":">> \o value \o <<"]">>
      [] OTHER -> msg

\* bracket-free texts, and bracket-free values that are not empty
FormatMessages == Strings({<<"x">>, <<" ">>, <<"=">>, <<"o","g">>}, MaxFormatPieces)

FormatValues == Strings({<<"x">>, <<"=">>, <<" ">>, <<":">>}, MaxFormatPieces) \ {<<>>}

InitFormatHelper ==
    /\ ParseIdle /\ MentionsIdle /\ ResponseIdle /\ SendIdle /\ LaterIdle
    /\ LogonIdle /\ TwoSendsIdle
    /\ h_pc = "call"
    /\ h_args \in [message : FormatMessages,
                   bbcode_type : BBCodeTypes \cup {<<"b">>},
                   value : FormatValues]
    /\ h_text = <<>>
    /\ h_out = <<>>

\* the call of format_with_bbcode
FormatHelperBuild ==
    /\ h_pc = "call"
    /\ h_text' = format_with_bbcode(h_args.message, h_args.bbcode_type, h_args.value)
    /\ h_pc' = "built"
    /\ UNCHANGED <<h_args, h_out, OtherThanHelper>>

\* the text handed to parse_bbcode
FormatHelperParse ==
    /\ h_pc = "built"
    /\ h_out' = parse_bbcode(h_text)
    /\ h_pc' = "done"
    /\ UNCHANGED <<h_args, h_text, OtherThanHelper>>

NextFormatHelper == FormatHelperBuild \/ FormatHelperParse

SpecFormatHelper == InitFormatHelper /\ [][NextFormatHelper]_vars

TwoSendsNeverWait == \A c \in CallIds : calls[c].pc # "wait_echo"

\* no call has backfilled its record from any notification
TwoSendsNeverBackfill == \A c \in CallIds : calls[c].taken = None

----------------------------------------------------------------------------
(* What the claims about the parser speak of, stated on the input text. *)

\* the bracketed spans of s, left to right: the contents between each "[" and
\* the first "]" after it, the scan resuming after that "]"
HasSpan(s) ==
    \E o \in 1..Len(s) : s[o] = "[" /\ \E c \in (o + 1)..Len(s) : s[c] = "]"

FirstOpen(s) == CHOOSE o \in 1..Len(s) : s[o] = "[" /\ \A j \in 1..(o - 1) : s[j] # "["

FirstClose(s) ==
    CHOOSE c \in (FirstOpen(s) + 1)..Len(s) :
        s[c] = "]" /\ \A j \in (FirstOpen(s) + 1)..(c - 1) : s[j] # "]"

RECURSIVE BracketSpans(_)
BracketSpans(s) ==
    IF HasSpan(s)
    THEN <<SubSeq(s, FirstOpen(s) + 1, FirstClose(s) - 1)>>
             \o BracketSpans(SubSeq(s, FirstClose(s) + 1, Len(s)))
    ELSE <<>>

\* the name of a span: what precedes its first "="
ExactName(span) ==
    IF \E k \in 1..Len(span) : span[k] = "="
    THEN SubSeq(span, 1, (CHOOSE k \in 1..Len(span) :
                            span[k] = "=" /\ \A j \in 1..(k - 1) : span[j] # "=") - 1)
    ELSE span

TrimmedName(span) == Trim(ExactName(span))

\* s with the spans whose trimmed name is allow-listed removed
RECURSIVE WithoutTagSpans(_)
WithoutTagSpans(s) ==
    IF HasSpan(s)
    THEN SubSeq(s, 1, FirstOpen(s) - 1)
         \o (IF TrimmedName(SubSeq(s, FirstOpen(s) + 1, FirstClose(s) - 1)) \in AllowedSet
             THEN <<>>
             ELSE SubSeq(s, FirstOpen(s), FirstClose(s)))
         \o WithoutTagSpans(SubSeq(s, FirstClose(s) + 1, Len(s)))
    ELSE s

\* the Text elements of a result, concatenated in order
RECURSIVE TextOf(_)
TextOf(result) ==
    IF result = <<>> THEN <<>>
    ELSE (IF Head(result).kind = "String" THEN Head(result).text ELSE <<>>)
         \o TextOf(Tail(result))

\* the tags of the Tag nodes of a result, in order
RECURSIVE NodeTags(_)
NodeTags(result) ==
    IF result = <<>> THEN <<>>
    ELSE (IF Head(result).kind = "Node" THEN <<Head(result).tag>> ELSE <<>>)
         \o NodeTags(Tail(result))

RECURSIVE AllowedOnly(_)
AllowedOnly(names) ==
    IF names = <<>> THEN <<>>
    ELSE (IF Head(names) \in AllowedSet THEN <<Head(names)>> ELSE <<>>)
         \o AllowedOnly(Tail(names))

EndsWith(s, suffix) ==
    Len(suffix) <= Len(s) /\ SubSeq(s, Len(s) - Len(suffix) + 1, Len(s)) = suffix

IsSubstring(t, s) ==
    \E a \in 0..(Len(s) - Len(t)) : SubSeq(s, a + 1, a + Len(t)) = t

ClosingOf(t) == <<"[", "/">> \o t \o <<"]">>

Og == <<"o", "g">>

\* C5: the Text elements of parse(s), concatenated, are s with the spans that
\* became Tag nodes removed: nothing is lost, duplicated or reordered.
C5_TextRoundTrip ==
    p_pc = "done" => TextOf(p_result) = WithoutTagSpans(message)

\* C6: when no bracketed span of the input has an allow-listed name, parse
\* returns exactly one Text element, equal to the input.
C6_RejectedFoldBack ==
    (p_pc = "done"
        /\ \A k \in 1..Len(BracketSpans(message)) :
               TrimmedName(BracketSpans(message)[k]) \notin AllowedSet)
    => p_result = <<ContentString(message)>>

C8_NeverEmpty ==
    p_pc = "done"
    => /\ Len(p_result) >= 1
       /\ message = <<>> => p_result = <<ContentString(<<>>)>>

C8_Witness == p_pc = "done" /\ message = <<>> /\ Len(p_result) = 1

\* C9 as stated: the Tag nodes are exactly the spans whose name, as written,
\* is an allow-listed identifier.
C9_ExactNameOnly ==
    p_pc = "done"
    => NodeTags(p_result)
       = AllowedOnly([k \in 1..Len(BracketSpans(message)) |->
                         ExactName(BracketSpans(message)[k])])

\* C9 amended: the Tag nodes are exactly the spans whose name, trimmed of
\* surrounding whitespace, is case-sensitively an allow-listed identifier, in
\* order; every other span appears, brackets included, in the literal text.
C9_TrimmedNameOnly ==
    p_pc = "done"
    => /\ NodeTags(p_result)
          = AllowedOnly([k \in 1..Len(BracketSpans(message)) |->
                            TrimmedName(BracketSpans(message)[k])])
       /\ \A k \in 1..Len(BracketSpans(message)) :
              TrimmedName(BracketSpans(message)[k]) \notin AllowedSet
              => IsSubstring(<<"[">> \o BracketSpans(message)[k] \o <<"]">>,
                             TextOf(p_result))

C9_Witness ==
    /\ p_pc = "done"
    /\ message = <<"[", " ", "o", "g", "]">>
    /\ p_result = <<ContentNode(Og, EmptyMap, None)>>

----------------------------------------------------------------------------
(* What the claims about the mention extractor speak of. *)

\* some whitespace-delimited token of s is lit with only the punctuation
\* characters ! ? , . ; before and after it
HasWholeToken(s, lit) ==
    \E c \in 1..(Len(s) - Len(lit) + 1) :
        /\ SubSeq(s, c, c + Len(lit) - 1) = lit
        /\ \A k \in 1..(c - 1) :
               (\A j \in k..(c - 1) : ~IsWhitespace(s[j])) => s[k] \in {"!", "?", ",", ".", ";"}
        /\ \A k \in (c + Len(lit))..Len(s) :
               (\A j \in (c + Len(lit))..k : ~IsWhitespace(s[j]))
               => s[k] \in {"!", "?", ",", ".", ";"}

ResultMentionAll == m_result # None /\ m_result[1].mention_all
ResultMentionHere == m_result # None /\ m_result[1].mention_here

\* C10: mention_all (mention_here) is set exactly when some whitespace-delimited
\* token, trimmed of ! ? , . ; at both ends, is "@all" ("@here"); a token that
\* only contains the literal never sets it.
C10_WholeTokenOnly ==
    m_pc = "done"
    => /\ ResultMentionAll <=> HasWholeToken(m_text, <<"@", "a", "l", "l">>)
       /\ ResultMentionHere <=> HasWholeToken(m_text, <<"@", "h", "e", "r", "e">>)

C10_Witness ==
    /\ m_pc = "done"
    /\ m_text = <<"x", "@", "a", "l", "l", " ", "@", "h", "e", "r", "e">>
    /\ ~ResultMentionAll
    /\ ResultMentionHere

\* the positions where a whitespace-delimited token of s starts
TokenStarts(s) ==
    {a \in 1..Len(s) : ~IsWhitespace(s[a]) /\ (a = 1 \/ IsWhitespace(s[a - 1]))}

\* the token of s that starts at a
TokenAt(s, a) ==
    LET b == CHOOSE e \in a..Len(s) :
                 /\ \A k \in a..e : ~IsWhitespace(s[k])
                 /\ (e = Len(s) \/ IsWhitespace(s[e + 1]))
    IN  SubSeq(s, a, b)

\* a token without the characters ! ? , . ; at its two ends
CoreOf(t) ==
    LET keep == {k \in 1..Len(t) : t[k] \notin {"!", "?", ",", ".", ";"}} IN
    IF keep = {} THEN <<>>
    ELSE SubSeq(t, CHOOSE k \in keep : \A j \in keep : k <= j,
                   CHOOSE k \in keep : \A j \in keep : j <= k)

Digits == {"0", "1", "2", "3", "4", "5", "6", "7", "8", "9"}

\* [U:1:...]
HasIdShape(t) ==
    Len(t) >= 6 /\ SubSeq(t, 1, 5) = <<"[", "U", ":", "1", ":">> /\ t[Len(t)] = "]"

AccountOf(t) == SubSeq(t, 6, Len(t) - 1)

\* [U:1:digits] with an account id that is a 32-bit number
ParsesAsId(t) ==
    /\ HasIdShape(t)
    /\ Len(AccountOf(t)) \in 1..10
    /\ \A k \in 1..Len(AccountOf(t)) : AccountOf(t)[k] \in Digits
    /\ FitsU32(AccountOf(t))

\* the Steam IDs of the tokens of s from position a on, in text order
RECURSIVE IdsFrom(_, _)
IdsFrom(s, a) ==
    IF a > Len(s) THEN <<>>
    ELSE (IF a \in TokenStarts(s) /\ ParsesAsId(CoreOf(TokenAt(s, a)))
          THEN <<StripZeros(AccountOf(CoreOf(TokenAt(s, a))))>>
          ELSE <<>>) \o IdsFrom(s, a + 1)

IdsInTextOrder(s) == IdsFrom(s, 1)

\* some token of s has the [U:1:...] shape and does not parse
HasUnparsableIdToken(s) ==
    \E a \in TokenStarts(s) :
        HasIdShape(CoreOf(TokenAt(s, a))) /\ ~ParsesAsId(CoreOf(TokenAt(s, a)))

ResultSteamIds == IF m_result = None THEN <<>> ELSE m_result[1].mention_steamids

\* C11: extract_mentions returns None exactly when no token is @all, none is
\* @here and none yields a Steam ID; a returned Some has mention_all or
\* mention_here true or a non-empty mention_steamids.
C11_NoneIffNoSignal ==
    m_pc = "done"
    => /\ m_result = None
          <=> /\ ~HasWholeToken(m_text, <<"@", "a", "l", "l">>)
              /\ ~HasWholeToken(m_text, <<"@", "h", "e", "r", "e">>)
              /\ IdsInTextOrder(m_text) = <<>>
       /\ m_result # None
          => \/ m_result[1].mention_all
             \/ m_result[1].mention_here
             \/ m_result[1].mention_steamids # <<>>

\* an id-shaped token that does not parse, alone: None
C11_Witness ==
    /\ m_pc = "done"
    /\ m_text = <<"[", "U", ":", "1", ":", "x", "]">>
    /\ m_result = None

\* C12: mention_steamids is the list of the Steam IDs of the tokens of form
\* [U:1:digits], in text order and with duplicates; an id-shaped token that
\* does not parse adds nothing and leaves the other tokens' entries alone.
C12_IdsInOrderWithDuplicates ==
    m_pc = "done" => ResultSteamIds = IdsInTextOrder(m_text)

\* a repeated id around an id-shaped token that does not parse
C12_Witness ==
    /\ m_pc = "done"
    /\ m_text = <<" ", "[", "U", ":", "1", ":", "7", "]", " ",
                  "[", "U", ":", "1", ":", "x", "]", " ",
                  "[", "U", ":", "1", ":", "7", "]">>
    /\ HasUnparsableIdToken(m_text)
    /\ ResultSteamIds = << <<"7">>, <<"7">> >>

----------------------------------------------------------------------------
(* What the claim about the outbound text speaks of. *)

\* position k of s holds the backslash of a sequence \[ or \]
EscapeAt(s, k) == k < Len(s) /\ s[k] = "\\" /\ s[k + 1] \in {"[", "]"}

\* s from position k on, without the backslashes of its escaped brackets
RECURSIVE UnescapedFrom(_, _)
UnescapedFrom(s, k) ==
    IF k > Len(s) THEN <<>>
    ELSE (IF EscapeAt(s, k) THEN <<>> ELSE <<s[k]>>) \o UnescapedFrom(s, k + 1)

\* C14: prepare_message_for_sending replaces every \[ by [ and every \] by ]
\* and changes nothing else; a text with neither sequence comes back unchanged.
C14_UnescapesBracketsOnly ==
    u_pc = "done"
    => /\ u_out[1] = UnescapedFrom(u_message, 1)
       /\ (\A k \in 1..Len(u_message) : ~EscapeAt(u_message, k)) => u_out[1] = u_message

\* both sequences in one text
C14_Witness ==
    /\ u_pc = "done"
    /\ u_message = <<"\\", "[", "\\", "]">>
    /\ u_out = Some(<<"[", "]">>)

----------------------------------------------------------------------------
(* What the claim about the original text speaks of. *)

\* C13: original_message of a record always equals the raw text the caller
\* supplied: preprocess_message, process_response, send_group_message (its
\* echo backfill of lines 679-680 included) and
\* update_preprocessed_from_notification never change it.
C13_OriginalNeverOverwritten ==
    rec # None
    => /\ rec[1].original_message = rec_raw
       /\ \A notification \in RecordNotifications :
              Backfill(rec[1], notification).original_message = rec_raw

\* a record rebuilt from a notification whose text differs from the raw one
C13_Witness ==
    /\ rec # None
    /\ rec_op = "update_preprocessed_from_notification"
    /\ rec_steps = MaxRecordSteps
    /\ rec[1].modified_message # rec_raw
    /\ rec[1].original_message = rec_raw

----------------------------------------------------------------------------
(* What the claims about the dispatch loop speak of. *)

\* the positions of the log where the handler was entered, where it returned,
\* and where the stream yielded an error
Calls == {a \in 1..Len(d_log) : d_log[a].ev = "call"}
Returns == {a \in 1..Len(d_log) : d_log[a].ev = "return"}
StreamErrors == {a \in 1..Len(d_log) : d_log[a].ev = "error"}
FailedReturns == {a \in Returns : ~d_log[a].ok}

\* how many items the stream had yielded when the log was a events long
TakenBy(a) == Cardinality({b \in 1..a : d_log[b].ev \in {"call", "error"}})

\* C15: the record of every message handed to the handler has
\* server_timestamp = Some(notification timestamp) and
\* ordinal = Some(notification ordinal).
C15_DispatchedRecordHasMetadata ==
    \A a \in Calls :
        /\ d_log[a].message.preprocessed.server_timestamp = Some(d_log[a].item.timestamp)
        /\ d_log[a].message.preprocessed.ordinal = Some(d_log[a].item.ordinal)

\* C16: after a handler failure no later item is passed to the handler and
\* the loop returns that failure; after a handler success the loop is back
\* at the stream and what follows is the next item.
C16_HandlerFailureStopsLoop ==
    /\ \A a \in FailedReturns :
          /\ a = Len(d_log)
          /\ d_pc = "done"
          /\ d_result = Err([kind |-> "Callback", n |-> TakenBy(a)])
    /\ \A a \in Returns \ FailedReturns :
          IF a = Len(d_log)
          THEN d_pc = "next" \/ (d_pc = "done" /\ d_result = Ok(<<>>) /\ TakenBy(a) = Len(inner))
          ELSE d_log[a + 1].ev \in {"call", "error"} /\ TakenBy(a + 1) = TakenBy(a) + 1
    /\ (d_result # None /\ ~d_result.ok /\ d_result.error.kind = "Callback")
          => FailedReturns # {}

\* a success, then a failure, with an item left in the stream
C16_Witness ==
    /\ d_pc = "done"
    /\ Len(d_log) = 4
    /\ d_log[2].ev = "return" /\ d_log[2].ok
    /\ d_log[4].ev = "return" /\ ~d_log[4].ok
    /\ Len(inner) = 3
    /\ inner[3].ok
    /\ d_result = Err([kind |-> "Callback", n |-> 2])

\* C17: after the stream yields an error the loop sleeps the backoff and
\* returns the stream error; it enters the handler for no further item and
\* takes nothing more from the stream.
C17_StreamErrorStopsLoop ==
    /\ \A a \in StreamErrors :
          /\ a >= Len(d_log) - 1
          /\ d_taken = TakenBy(a)
          /\ IF a = Len(d_log)
             THEN d_pc = "sleep" /\ d_result = None
             ELSE /\ d_log[a + 1].ev = "backoff"
                  /\ d_pc = "done"
                  /\ d_result = Err([kind |-> "Stream", n |-> TakenBy(a)])
    /\ (d_result # None /\ ~d_result.ok /\ d_result.error.kind = "Stream")
          => StreamErrors # {}

\* a handled item, then the stream error, with an item left in the stream
C17_Witness ==
    /\ d_pc = "done"
    /\ Len(inner) = 3
    /\ inner[1].ok /\ ~inner[2].ok /\ inner[3].ok
    /\ Len(d_log) = 4
    /\ d_log[3].ev = "error"
    /\ d_log[4].ev = "backoff"
    /\ d_result = Err([kind |-> "Stream", n |-> 2])

\* C18: the handler is entered on the items in the order the stream yields
\* them, and each invocation has returned before the next item is taken: in
\* the log every entry of the handler is directly followed by its return.
C18_InOrderOneAtATime ==
    /\ \A a \in Calls :
          /\ inner[TakenBy(a)].ok
          /\ d_log[a].item = inner[TakenBy(a)].value
          /\ IF a = Len(d_log)
             THEN d_pc = "handler" /\ d_item = Some(d_log[a].message)
             ELSE d_log[a + 1].ev = "return"
    /\ \A a \in Returns : a > 1 /\ d_log[a - 1].ev = "call"
    /\ d_pc # "handler" => d_item = None
    /\ d_taken = TakenBy(Len(d_log))

\* three different items handled one after the other
C18_Witness ==
    /\ d_pc = "done"
    /\ d_result = Ok(<<>>)
    /\ Len(inner) = 3
    /\ inner[1] # inner[2] /\ inner[2] # inner[3] /\ inner[1] # inner[3]
    /\ Len(d_log) = 6
    /\ \A k \in 1..3 : d_log[2 * k - 1].ev = "call" /\ d_log[2 * k - 1].item = inner[k].value

----------------------------------------------------------------------------
(* What the claim about deletion speaks of. *)

\* the input records that have both identifiers, in input order
Identified(messages) ==
    SelectSeq(messages, LAMBDA msg : msg.server_timestamp # None /\ msg.ordinal # None)

\* C20: delete_group_messages_from_preprocessed issues one delete request
\* with exactly the (server_timestamp, ordinal) pairs of the input records
\* that have both, in input order; when no input record has both (an empty
\* input included) it returns an error and issues no request.
C20_DeletesIdentifiedRecordsOnly ==
    LET wanted == Identified(del_args.messages) IN
    /\ Len(del_requests) <= 1
    /\ \A a \in 1..Len(del_requests) :
          /\ del_requests[a].chat_group_id = del_args.chat_group_id
          /\ del_requests[a].chat_id = del_args.chat_id
          /\ Len(del_requests[a].messages) = Len(wanted)
          /\ \A k \in 1..Len(wanted) :
                 /\ Some(del_requests[a].messages[k].server_timestamp)
                        = wanted[k].server_timestamp
                 /\ Some(del_requests[a].messages[k].ordinal) = wanted[k].ordinal
    /\ del_pc = "done"
          => IF wanted = <<>>
             THEN del_requests = <<>> /\ ~del_result.ok
             ELSE Len(del_requests) = 1

\* a record without ordinal between two that have both identifiers
C20_Witness ==
    /\ del_pc = "done"
    /\ Len(del_args.messages) = 3
    /\ del_args.messages[1].server_timestamp = Some(2)
    /\ del_args.messages[2].ordinal = None
    /\ del_args.messages[3].server_timestamp = Some(1)
    /\ del_result = Ok("response")
    /\ del_requests = << delete_messages_request(1, 1, << <<2, 0>>, <<1, 0>> >>) >>

----------------------------------------------------------------------------
(* What the claims about process_response and send_group_message speak of. *)

ReturnedAwaitingEcho ==
    /\ s_pc = "done"
    /\ s_result.ok
    /\ params.echo_to_sender
    /\ ~HasField(response[1].ordinal)

\* the notifications for the caller's room delivered within the echo timeout
WindowMatches ==
    {k \in 1..Len(stream) :
        /\ stream[k].in_window
        /\ stream[k].notification.chat_group_id = params.chat_group_id
        /\ stream[k].notification.chat_id = params.chat_id}

FirstWindowMatch ==
    stream[CHOOSE k \in WindowMatches : \A j \in WindowMatches : k <= j].notification

\* C1: with the echo requested and no ordinal in the response, when a
\* notification for the same room arrives within the echo timeout, the
\* returned record carries the ordinal and timestamp of the first such one.
C1_EchoBackfillsRecord ==
    (ReturnedAwaitingEcho /\ WindowMatches # {})
    => /\ s_result.value.ordinal = Some(FirstWindowMatch.ordinal)
       /\ s_result.value.server_timestamp = Some(FirstWindowMatch.timestamp)

\* C2: with the echo requested and no ordinal in the response, when no
\* notification for the same room arrives before the timeout, the call
\* returns success with ordinal None and a warning is recorded.
C2_TimeoutLeavesOrdinalUnknown ==
    (s_pc = "done" /\ response # None /\ params.echo_to_sender
        /\ ~HasField(response[1].ordinal) /\ timed_out /\ WindowMatches = {})
    => /\ s_result.ok
       /\ s_result.value.ordinal = None
       /\ warned

\* C19: when the transport request fails, send_group_message returns that
\* error and no record, and neither subscribes to the notification stream
\* nor waits for an echo, whatever the connection delivers afterwards.
C19_TransportErrorReturnsNoRecord ==
    (s_pc = "done" /\ response = None)
    => /\ s_result = Err("transport")
       /\ final_preprocessed = None
       /\ cursor = None
       /\ taken = None
       /\ ~warned

\* the request failed and the connection went on delivering notifications
C19_Witness ==
    /\ s_pc = "done"
    /\ request # None
    /\ response = None
    /\ s_result = Err("transport")
    /\ params.echo_to_sender
    /\ Len(stream) = MaxStream

\* C3: a returned record has ordinal Some(n) only when the server reported n,
\* in the response or in the matched echo notification; a response without
\* ordinal gives None, never Some(0).
C3_OrdinalOnlyFromServer ==
    (s_pc = "done" /\ s_result.ok)
    => \/ s_result.value.ordinal = None
       \/ HasField(response[1].ordinal) /\ s_result.value.ordinal = response[1].ordinal
       \/ taken # None /\ s_result.value.ordinal = Some(taken[1].ordinal)

----------------------------------------------------------------------------
(* What the claim about the constructors speaks of. *)

\* C21: new and new_anonymous return a client only when the established
\* connection reports a non-zero account id and a non-zero session id; after
\* a discovery failure, a login failure or a zero id they return an error and
\* no client.
C21_ClientOnlyWithIds ==
    l_pc = "done"
    => /\ l_result.ok
          <=> /\ l_world.discovery_ok
              /\ l_world.login_ok
              /\ l_world.account_id # 0
              /\ l_world.session_id # 0
       /\ l_result.ok
          => /\ l_result.value.connection.account_id # 0
             /\ l_result.value.connection.session_id # 0

\* the anonymous login came back with an account id and no session id
C21_Witness ==
    /\ l_pc = "done"
    /\ l_call = "new_anonymous"
    /\ connection # None
    /\ connection[1].account_id # 0
    /\ connection[1].session_id = 0
    /\ l_result = Err("session ID not assigned")

----------------------------------------------------------------------------
(* What the later claims about the parser speak of. *)

NoAdjacentText(result) ==
    \A k \in 1..(Len(result) - 1) :
        ~(result[k].kind = "String" /\ result[k + 1].kind = "String")

\* a step of the scan that appends to parsed appends a Tag node, preceded by
\* the pending text when there was any, and leaves no text pending
TagFlushesPending ==
    Len(parsed') > Len(parsed)
    => /\ parsed'[Len(parsed')].kind = "Node"
       /\ current_text' = <<>>
       /\ SubSeq(parsed', 1, Len(parsed)) = parsed
       /\ \/ Len(parsed') = Len(parsed) + 1
          \/ /\ Len(parsed') = Len(parsed) + 2
             /\ parsed'[Len(parsed') - 1].kind = "String"
             /\ parsed'[Len(parsed') - 1].text # <<>>

\* C22: no result of parse, and no list the scan has built on the way, has
\* two consecutive Text elements; a Tag node is appended only together with
\* the flush of the pending literal text before it.
C22_TextRunsCoalesced ==
    /\ [](NoAdjacentText(parsed) /\ NoAdjacentText(p_result))
    /\ [][TagFlushesPending]_vars

\* a literal run and a rejected span before a tag: one Text, then the Tag
C22_Witness ==
    /\ p_pc = "done"
    /\ message = <<"x", "[", "x", "]", "[", "o", "g", "]">>
    /\ Len(p_result) = 2
    /\ p_result[1].kind = "String"
    /\ p_result[2].kind = "Node"

\* the Tag nodes of a result, in order
Nodes(result) == SelectSeq(result, LAMBDA e : e.kind = "Node")

\* the bracketed spans of s whose trimmed name is allow-listed, in order
RecognizedSpans(s) == SelectSeq(BracketSpans(s), LAMBDA span : TrimmedName(span) \in AllowedSet)

HasEquals(span) == \E k \in 1..Len(span) : span[k] = "="

\* what follows the first "=" of a span
RightPart(span) ==
    SubSeq(span, (CHOOSE k \in 1..Len(span) :
                     span[k] = "=" /\ \A j \in 1..(k - 1) : span[j] # "=") + 1, Len(span))

ExpectedAttrs(span) ==
    IF HasEquals(span) /\ Trim(RightPart(span)) # <<>>
    THEN [k \in {"value"} |-> Trim(RightPart(span))]
    ELSE [k \in {} |-> <<>>]

\* C23: the node of every recognized tag has the trimmed part before the
\* first "=" as its tag, the single attribute "value" (the trimmed part after
\* the first "=") exactly when that part exists and is not empty after
\* trimming, no other attribute, and the content None.
C23_TagSplitAtFirstEquals ==
    p_pc = "done"
    => /\ Len(Nodes(p_result)) = Len(RecognizedSpans(message))
       /\ \A k \in 1..Len(Nodes(p_result)) :
              /\ Nodes(p_result)[k].tag = TrimmedName(RecognizedSpans(message)[k])
              /\ Nodes(p_result)[k].attrs = ExpectedAttrs(RecognizedSpans(message)[k])
              /\ DOMAIN Nodes(p_result)[k].attrs \subseteq {"value"}
              /\ Nodes(p_result)[k].content = None

\* a value with a second "=", a padded value, and a value of blanks only
C23_Witness ==
    /\ p_pc = "done"
    /\ message = <<"[", "o", "g", "=", "x", "=", "x", "]",
                   "[", "o", "g", " ", "=", " ", "x", " ", "]",
                   "[", "o", "g", "=", " ", "]">>
    /\ Len(p_result) = 3
    /\ p_result[1].attrs = [k \in {"value"} |-> <<"x", "=", "x">>]
    /\ p_result[2].attrs = [k \in {"value"} |-> <<"x">>]
    /\ p_result[3].attrs = EmptyMap

----------------------------------------------------------------------------
(* What the claim about concurrent sends speaks of. *)

\* the notifications delivered after call c had processed its response
AfterResponse(c) == {k \in 1..Len(room_stream) : c \in room_stream[k].responded}

FirstAfterResponse(c) ==
    room_stream[CHOOSE k \in AfterResponse(c) : \A j \in AfterResponse(c) : k <= j]

\* call c asked for the echo, got a response without ordinal and has returned
\* a record
CallReturnedAwaitingEcho(c) ==
    /\ calls[c].pc = "done"
    /\ calls[c].result.ok
    /\ calls[c].params.echo_to_sender
    /\ ~HasField(calls[c].response[1].ordinal)

\* C24: with two concurrent calls into the same room, the room pair being
\* the only correlation key, a call whose first notification for the room is
\* the echo of the other call's message backfills its record from it.
C24_AcceptsOtherCallsEcho ==
    \A c \in CallIds :
        (/\ CallReturnedAwaitingEcho(c)
         /\ AfterResponse(c) # {}
         /\ FirstAfterResponse(c).echo_of = OtherCall(c))
        => /\ calls[c].taken = Some(FirstAfterResponse(c))
           /\ calls[c].result.value.ordinal = Some(EchoOf(OtherCall(c)).ordinal)

----------------------------------------------------------------------------
(* What the claim about the backfill speaks of. *)

\* the four fields of a record that the metadata do not belong to
Payload(record) ==
    <<record.original_message, record.modified_message, record.message_bbcode_parsed,
      record.mentions>>

\* a step that changes the record of the call is the echo wait's one step of
\* taking its notification, and writes that notification's two values
RecordChangesOnlyByEcho ==
    (final_preprocessed # None /\ final_preprocessed' # final_preprocessed)
    => /\ s_pc = "wait_echo"
       /\ taken = None
       /\ taken' # None
       /\ final_preprocessed' # None
       /\ Payload(final_preprocessed'[1]) = Payload(final_preprocessed[1])
       /\ final_preprocessed'[1].ordinal = Some(taken'[1].ordinal)
       /\ final_preprocessed'[1].server_timestamp = Some(taken'[1].timestamp)

\* the assignments of lines 679-680 touch the two metadata fields only
BackfillKeepsPayload ==
    final_preprocessed # None
    => \A n \in Notifications :
          /\ Payload(Backfill(final_preprocessed[1], n)) = Payload(final_preprocessed[1])
          /\ Backfill(final_preprocessed[1], n).ordinal = Some(n.ordinal)
          /\ Backfill(final_preprocessed[1], n).server_timestamp = Some(n.timestamp)

----------------------------------------------------------------------------
(* Escaped brackets in the raw text. *)

\* the opening bracket at position k of the text is written as \[
EscapedAt(text, k) == text[k] = "[" /\ k > 1 /\ text[k - 1] = "\\"

\* every opening bracket of the text is escaped
EveryOpeningEscaped(text) ==
    \A k \in 1..Len(text) : text[k] = "[" => EscapedAt(text, k)

\* C26: a bracket the sender escaped with a backslash never triggers tag
\* parsing: a raw text whose opening brackets are all written as \[ parses
\* without a Tag node.
C26_EscapedBracketNoTag ==
    (p_pc = "done" /\ EveryOpeningEscaped(message)) => Nodes(p_result) = <<>>

\* what the scan does instead: the backslash is one more character of the
\* text before the bracket, and the span is parsed as if it were not there
C26_EscapedSpanStillParsed ==
    (p_pc = "done" /\ message = <<"\\","[","o","g","]">>)
    => p_result = <<ContentString(<<"\\">>), ContentNode(<<"o","g">>, EmptyMap, None)>>

----------------------------------------------------------------------------
(* An echo delivered between the request and the response. *)

\* the notifications for the call's room delivered so far
RoomEchoes ==
    {k \in 1..Len(stream) :
        EchoMatches(stream[k].notification, params.chat_group_id, params.chat_id)}

\* C27: the echo subscription is in place before any echo of the send can be
\* delivered: while the call still awaits the synchronous response, an echo
\* for its room that the server has delivered is within the reach of a
\* subscription the call holds, so that the echo wait will see it.
C27_SubscribedBeforeEcho ==
    (s_pc = "await_response" /\ params.echo_to_sender /\ RoomEchoes # {})
    => /\ cursor # None
       /\ \E k \in RoomEchoes : k > cursor[1]

----------------------------------------------------------------------------
(* Termination of the scan. *)

\* a complete bracket pair remains after position pos (0-based) of the text
PairRemains(text, pos) ==
    \E a \in (pos + 1)..Len(text) :
       /\ text[a] = "["
       /\ \E b \in (a + 1)..Len(text) : text[b] = "]"

\* an iteration of the loop either leaves it, and does so exactly when no
\* pair remains, or moves the position on by two characters or more
ScanStepAdvances ==
    (p_pc = "loop" /\ i < Len(message) /\ p_pc' # p_pc)
    => /\ p_pc' = "flush"
       /\ ~PairRemains(message, i)
       /\ i' = i

ScanStepStays ==
    (p_pc = "loop" /\ i < Len(message) /\ p_pc' = p_pc /\ <<parsed, current_text, i>>' # <<parsed, current_text, i>>)
    => /\ PairRemains(message, i)
       /\ i' >= i + 2

\* the call moves forward only: call, loop, flush, done
ParseRank(pc) == CASE pc = "call" -> 0 [] pc = "loop" -> 1 [] pc = "flush" -> 2 [] OTHER -> 3

\* every step of the call either moves it forward in the code or is an
\* iteration that moves the position on, so that 2 * (Len(message) - i) plus
\* the distance to the return decreases with every step
ParseVariantDecreases ==
    vars' # vars
    => \/ ParseRank(p_pc') > ParseRank(p_pc)
       \/ p_pc' = p_pc /\ p_pc = "loop" /\ i' > i

\* C30: parse terminates on every finite input: each iteration of the scan
\* loop either ends the scan, no complete bracket pair remaining, or advances
\* the position by at least 2 characters; the position never exceeds the
\* length of the input; no step of the call goes back.
C30_ScanTerminates ==
    /\ [](i <= Len(message))
    /\ [][ScanStepAdvances /\ ScanStepStays]_vars
    /\ [][ParseVariantDecreases]_vars

\* a scan of three iterations, two that advance and one that ends it at the
\* unclosed bracket
C30_Witness ==
    /\ p_pc = "done"
    /\ message = <<"[","o","g","]","[","x","]","[">>
    /\ i = 7
    /\ p_result = <<ContentNode(<<"o","g">>, EmptyMap, None),
                    ContentString(<<"[","x","]","[">>)>>

----------------------------------------------------------------------------
(* What the claims about the helpers speak of. *)

\* C28: mentions built by the helpers are recognized by the extractor: for a
\* message without mentions and a list of Steam IDs that is not empty,
\* extract_mentions(create_message_with_mentions(message, ids)) is Some and
\* its mention_steamids are ids in the same order.
C28_HelperMentionsRecognized ==
    (h_pc = "done" /\ h_args.steam_ids # <<>>)
    => /\ h_out # None
       /\ h_out[1].mention_steamids = h_args.steam_ids

\* what the extractor makes of the helper's text: every id is written as the
\* token create_mention gives, which starts with @ and so has not the
\* [U:1:...] shape, and nothing is extracted
C28_HelperMentionsNotRecognized ==
    /\ \A a \in HelperAccounts : ~is_steam_id_format(create_mention(a))
    /\ h_pc = "done" => h_out = None
    /\ h_pc \in {"built", "done"} /\ Len(h_args.steam_ids) = 1
       => h_text = h_args.message \o <<" ">> \o create_mention(h_args.steam_ids[1])

\* the Tag nodes of a parse result that carry the given name
TagsNamed(result, name) == SelectSeq(Nodes(result), LAMBDA e : e.tag = name)

\* C29: markup produced by format_with_bbcode is recognized by the parser:
\* for each of the four type constants, a bracket-free message and a
\* bracket-free value that is not empty, the parse of the formatted text
\* contains a Tag node whose tag is the type.
C29_FormattedMarkupRecognized ==
    (h_pc = "done" /\ h_args.bbcode_type \in BBCodeTypes)
    => TagsNamed(h_out, h_args.bbcode_type) # <<>>

\* what holds: spoiler, code and url are read back; emoticon never is
C29_AllButEmoticonRecognized ==
    h_pc = "done"
    => /\ h_args.bbcode_type \in BBCodeTypes \ {BBCODE_TYPE_EMOTICON}
          => TagsNamed(h_out, h_args.bbcode_type) # <<>>
       /\ h_args.bbcode_type = BBCODE_TYPE_EMOTICON
          => /\ Nodes(h_out) = <<>>
             /\ h_out = <<ContentString(h_text), ContentString(h_text)>>
                  \/ h_out = <<ContentString(h_text)>>

====
